---- MODULE Spec2Model ----
(***************************************************************************)
(* Dual-provider data-access layer of PinoLearn.                           *)
(*                                                                         *)
(*   cache router      src/pinolearn/unified-redis.ts  (class UnifiedRedis)*)
(*   data-store router src/unnamed/part_005            (unified-database)  *)
(*                                                                         *)
(* Every await of the source is a scheduling point: a call is one action   *)
(* up to the provider request it issues, and one action per completion of  *)
(* that request (resolved, rejected, timed out), which runs the handler to *)
(* its next await or to its return.  The two routers are separate modules  *)
(* that share no state; a behaviour exercises one of them (router).        *)
(***************************************************************************)
EXTENDS Integers, Sequences, FiniteSets, TLC

VARIABLES
    router,          \* which module the callers of this behaviour use
    now,             \* Date.now(), in ms
    nodeEnv,         \* process.env.NODE_ENV
    upstashClient,   \* UnifiedRedis.upstashClient # null
    azureClient,     \* UnifiedRedis.azureClient # null
    activeProvider,  \* UnifiedRedis.activeProvider
    failures,        \* UnifiedRedis.failures (FailureTracker)
    store,           \* the text each cache provider holds under each key
    supabaseClient,  \* unified-database: supabaseClient # null
    azureDbClient,   \* unified-database: azureClient # null
    providerHealth,  \* unified-database: providerHealth
    calls,           \* per caller: the call in flight, or the one that returned
    prev,            \* per caller: the call before, when the caller kept its outcome
    stable,          \* providers that have become healthy and stay so
    azureEvents,     \* the 'error' and 'connect' events the ioredis client has emitted
    teardown,        \* the $disconnect of unified-database in progress
    snapshot,        \* what getHealthStatus() returned last
    probe,           \* the healthCheck() of UnifiedRedis in progress
    abandoned,       \* providers running a call that withTimeout gave up on
    dbProbe,         \* the healthCheck() of unified-database in progress
    stream,          \* ai.ts: the streamChatWithAI call
    limiter,         \* security.ts: rateLimitStore and the calls made of it
    referralDb,      \* referrals.ts: the Referral and UserRewards tables
    jobs             \* referrals.ts: the calls in progress

\* what the provider calls of the two routers leave alone
\* the modules outside the data-access layer
apps == <<stream, limiter, referralDb, jobs>>
admin == <<teardown, snapshot, probe, dbProbe, apps>>

vars == <<router, now, nodeEnv, upstashClient, azureClient, activeProvider,
          failures, store, supabaseClient, azureDbClient, providerHealth,
          calls, prev, stable, azureEvents, teardown, snapshot, probe, abandoned,
          dbProbe, stream, limiter, referralDb, jobs>>

(***************************************************************************)
(* Program constants.                                                      *)
(***************************************************************************)
MAX_FAILURES == 3
FAILURE_RESET_TIME == 60000
FAILURE_THRESHOLD == 3
CIRCUIT_RESET_TIME == 60000
OPERATION_TIMEOUT == 5000

(***************************************************************************)
(* Bounds of the model.                                                    *)
(***************************************************************************)
\* Date.now() at construction.
StartTime == 100000
\* No failure is recorded on a provider whose counter has reached this.
MaxCount == 4

\* The instants at which the clock is sampled after construction.
Offsets == {0, 1, OPERATION_TIMEOUT, FAILURE_RESET_TIME + 1}
Instants == {StartTime + d : d \in Offsets}

Callers == {"c1", "c2"}
CacheProviders == {"upstash", "azure"}
DbProviders == {"supabase", "azure"}
Keys == {"x"}

(***************************************************************************)
(* JavaScript values and their JSON text.                                  *)
(***************************************************************************)
Str(s) == [t |-> "string", s |-> s, n |-> 0]
Num(n) == [t |-> "number", s |-> "", n |-> n]
Bool(b) == [t |-> "boolean", s |-> "", n |-> IF b THEN 1 ELSE 0]
\* the object {n: n}
ObjN(n) == [t |-> "object", s |-> "", n |-> n]
\* the array [n]
ArrN(n) == [t |-> "array", s |-> "", n |-> n]
Null == [t |-> "null", s |-> "", n |-> 0]
\* an opaque driver reply (a Prisma result, an EVAL reply, ...)
Reply(from) == [t |-> "reply", s |-> from, n |-> 0]

StringPayloads == {"hello", "42", ""}
NumberPayloads == {-1, 0, 1, 42}
JsonValues ==
    {Str(s) : s \in StringPayloads} \cup {Num(n) : n \in NumberPayloads}
    \cup {ObjN(n) : n \in NumberPayloads} \cup {ArrN(n) : n \in NumberPayloads}
    \cup {Bool(TRUE), Bool(FALSE), Null}

\* Number.prototype.toString for the integers of the model.
NumberText(n) == IF n < 0 THEN "-" \o ToString(-n) ELSE ToString(n)

JSONstringify(v) ==
    CASE v.t = "string" -> "\"" \o v.s \o "\""
      [] v.t = "number" -> NumberText(v.n)
      [] v.t = "boolean" -> (IF v.n = 1 THEN "true" ELSE "false")
      [] v.t = "object" -> "{\"n\":" \o NumberText(v.n) \o "}"
      [] v.t = "array" -> "[" \o NumberText(v.n) \o "]"
      [] OTHER -> "null"

\* JSON.parse: the value whose JSON text is `text`, or a SyntaxError.
JSONparse(text) ==
    IF \E v \in JsonValues : JSONstringify(v) = text
    THEN [ok |-> TRUE, value |-> CHOOSE v \in JsonValues : JSONstringify(v) = text]
    ELSE [ok |-> FALSE, value |-> Null]

\* The key is absent at the provider.
Nil == "(nil)"

\* const stringValue = typeof value === 'string' ? value : JSON.stringify(value)
stringValue(value) == IF value.t = "string" THEN value.s ELSE JSONstringify(value)

\* get(): if (!value) return null; try JSON.parse(value) catch return value
azureGetResult(text) ==
    IF text = Nil \/ text = "" THEN Null
    ELSE IF JSONparse(text).ok THEN JSONparse(text).value ELSE Str(text)

\* @upstash/redis serialises a non-string argument with JSON.stringify and
\* deserialises a reply with JSON.parse, keeping the text when that fails.
upstashSetPayload(value) == IF value.t = "string" THEN value.s ELSE JSONstringify(value)
upstashGetResult(text) ==
    IF text = Nil THEN Null
    ELSE IF JSONparse(text).ok THEN JSONparse(text).value ELSE Str(text)

EmptyList == [t |-> "list", s |-> "", n |-> 0]
NoValue == [t |-> "undefined", s |-> "", n |-> 0]

(***************************************************************************)
(* Calls.  attempts lists the attempts of the call that have completed,    *)
(* skipped the providers the call passed over without attempting them,     *)
(* reset the providers whose breaker a check of the call has reset.        *)
(***************************************************************************)
NoResult == [kind |-> "none", value |-> NoValue]
Returned(v) == [kind |-> "return", value |-> v]
Thrown(msg) == [kind |-> "throw", value |-> Str(msg)]

\* sent is the value argument of the command last handed to a driver
NoCall ==
    [pc |-> "idle", op |-> "none", key |-> "none", value |-> NoValue, ex |-> 0,
     provider |-> "none", deadline |-> 0, sent |-> NoValue, attempts |-> <<>>,
     skipped |-> {}, reset |-> {}, result |-> NoResult]

NewCall(op, key, value, ex) ==
    [NoCall EXCEPT !.pc = "start", !.op = op, !.key = key, !.value = value, !.ex = ex]

\* set / setex: upstashClient.set(key, value), azureClient.set(key, stringValue)
DriverArgument(r, p) ==
    IF r.op \in {"set", "setex"}
    THEN (IF p = "upstash" THEN r.value ELSE Str(stringValue(r.value)))
    ELSE NoValue

\* the request goes out to provider p; the handler awaits it
Issue(r, p, deadline) ==
    [r EXCEPT !.pc = "await", !.provider = p, !.deadline = deadline,
              !.sent = DriverArgument(r, p)]
Skip(r, p) == [r EXCEPT !.skipped = @ \cup {p}]
\* the check of p logged RESET when `was` differs from `is`
NoteReset(r, p, was, is) == IF was # is THEN [r EXCEPT !.reset = @ \cup {p}] ELSE r
Attempted(r, outcome) ==
    [r EXCEPT !.attempts = Append(@, [provider |-> r.provider, outcome |-> outcome])]
Finish(r, result) ==
    [r EXCEPT !.pc = "done", !.provider = "none", !.deadline = 0, !.result = result]
\* the last attempt of the call succeeded, and the provider it was made on
Served(r) == Len(r.attempts) > 0 /\ r.attempts[Len(r.attempts)].outcome = "ok"
ServedBy(r) == r.attempts[Len(r.attempts)].provider

(***************************************************************************)
(* Circuit breaker of the cache router.                                    *)
(***************************************************************************)
lastFailureField(provider) ==
    IF provider = "upstash" THEN "lastUpstashFailure" ELSE "lastAzureFailure"

\* mutant: the failure is counted but not stamped
recordFailure_NoStamp(f, provider, t) == [f EXCEPT ![provider] = @ + 1]

\* mutant: a failure recorded while the breaker is open is not counted
recordFailure_Saturating(f, provider, t) ==
    [f EXCEPT ![provider] = IF @ >= MAX_FAILURES THEN @ ELSE @ + 1,
              ![lastFailureField(provider)] = t]

recordFailure(f, provider, t) ==
    [f EXCEPT ![provider] = @ + 1, ![lastFailureField(provider)] = t]

\* mutant: the counter is left as it is
resetFailures_Kept(f, provider) == f

\* mutant: a success clears the counters of both providers
resetFailures_All(f, provider) == [f EXCEPT !["upstash"] = 0, !["azure"] = 0]

resetFailures(f, provider) == [f EXCEPT ![provider] = 0]

\* mutant: the breaker opens one failure late
isProviderAvailable_OffByOne(f, provider, t) ==
    IF f[provider] <= MAX_FAILURES
    THEN [ret |-> TRUE, failures |-> f]
    ELSE IF t - f[lastFailureField(provider)] > FAILURE_RESET_TIME
         THEN [ret |-> TRUE, failures |-> [f EXCEPT ![provider] = 0]]
         ELSE [ret |-> FALSE, failures |-> f]

\* mutant: an open breaker is never reset by the clock
isProviderAvailable_NoReset(f, provider, t) ==
    [ret |-> f[provider] < MAX_FAILURES, failures |-> f]

\* The value returned and the tracker the call leaves behind.
isProviderAvailable(f, provider, t) ==
    IF f[provider] < MAX_FAILURES
    THEN [ret |-> TRUE, failures |-> f]
    ELSE IF t - f[lastFailureField(provider)] > FAILURE_RESET_TIME
         THEN [ret |-> TRUE, failures |-> resetFailures(f, provider)]
         ELSE [ret |-> FALSE, failures |-> f]

(***************************************************************************)
(* Operations of the cache router.                                         *)
(***************************************************************************)
CacheReads == {"get", "ttl", "exists", "keys"}
CacheWrites == {"set", "del", "incr", "expire", "setex", "eval", "sadd", "srem"}
CacheOps == CacheReads \cup CacheWrites

\* mutant: a read nobody served throws in production
CacheFallback_ReadsThrow(op, env) ==
    CASE op \in {"get", "ttl", "exists", "keys"} ->
             (IF env = "production" THEN Thrown("Redis unavailable")
              ELSE Returned(Null))
      [] op \in {"set", "eval"} ->
             (IF env = "production" THEN Thrown("Redis unavailable")
              ELSE Returned(Str("OK")))
      [] op = "setex" -> Returned(Str("OK"))
      [] OTHER -> Returned(Num(0))

\* mutant: the test of NODE_ENV is inverted
CacheFallback_EnvSwapped(op, env) ==
    CASE op = "get" -> Returned(Null)
      [] op = "set" -> (IF env # "production" THEN Thrown("Redis unavailable")
                        ELSE Returned(Str("OK")))
      [] op = "setex" -> Returned(Str("OK"))
      [] op = "ttl" -> Returned(Num(-1))
      [] op = "keys" -> Returned(EmptyList)
      [] op = "eval" -> (IF env # "production"
                         THEN Thrown("EVAL operation failed - rate limiting unavailable!")
                         ELSE Returned(Null))
      [] OTHER -> Returned(Num(0))

\* What each method returns, or throws, after its two provider blocks.
CacheFallback(op, env) ==
    CASE op = "get" -> Returned(Null)
      [] op = "set" -> (IF env = "production" THEN Thrown("Redis unavailable")
                        ELSE Returned(Str("OK")))
      [] op = "setex" -> Returned(Str("OK"))
      [] op = "ttl" -> Returned(Num(-1))
      [] op = "keys" -> Returned(EmptyList)
      [] op = "eval" -> (IF env = "production"
                         THEN Thrown("EVAL operation failed - rate limiting unavailable!")
                         ELSE Returned(Null))
      [] OTHER -> Returned(Num(0))

\* The text provider p holds under the call's key once its command has run.
DriverStore(r, p, text) ==
    CASE r.op \in {"set", "setex"} ->
             (IF p = "upstash" THEN upstashSetPayload(r.value) ELSE stringValue(r.value))
      [] r.op = "del" -> Nil
      [] OTHER -> text

\* What the method returns when provider p has served the command.
DriverResult(r, p, text) ==
    CASE r.op = "get" ->
             (IF p = "upstash" THEN upstashGetResult(text) ELSE azureGetResult(text))
      [] r.op \in {"set", "setex"} -> Str("OK")
      [] r.op \in {"del", "exists"} -> Num(IF text = Nil THEN 0 ELSE 1)
      [] r.op = "keys" -> (IF text = Nil THEN EmptyList ELSE [EmptyList EXCEPT !.n = 1])
      [] OTHER -> Reply(p)

\* if (this.azureClient && this.isProviderAvailable('azure')) { ... } fallback
CacheTrySecondary(r, f, t) ==
    IF azureClient
    THEN LET chk == isProviderAvailable(f, "azure", t)
         IN  IF chk.ret
             THEN [call |-> Issue(NoteReset(r, "azure", f, chk.failures), "azure", 0),
                   failures |-> chk.failures]
             ELSE [call |-> Finish(Skip(r, "azure"), CacheFallback(r.op, nodeEnv)),
                   failures |-> chk.failures]
    ELSE [call |-> Finish(Skip(r, "azure"), CacheFallback(r.op, nodeEnv)),
          failures |-> f]

\* mutant: the backup is tried first
CacheTryPrimary_BackupFirst(r, f, t) == CacheTrySecondary(r, f, t)

\* if (this.upstashClient && this.isProviderAvailable('upstash')) { ... }
CacheTryPrimary(r, f, t) ==
    IF upstashClient
    THEN LET chk == isProviderAvailable(f, "upstash", t)
         IN  IF chk.ret
             THEN [call |-> Issue(NoteReset(r, "upstash", f, chk.failures), "upstash", 0),
                   failures |-> chk.failures]
             ELSE CacheTrySecondary(Skip(r, "upstash"), chk.failures, t)
    ELSE CacheTrySecondary(Skip(r, "upstash"), f, t)

\* catch (error) { this.recordFailure(p) } and what follows the block of p
CacheAfterFailure(r, f, t) ==
    LET p == r.provider
        f1 == recordFailure(f, p, t)
        r1 == Attempted(r, "error")
    IN  IF p = "upstash"
        THEN CacheTrySecondary(r1, f1, t)
        ELSE [call |-> Finish(r1, CacheFallback(r.op, nodeEnv)), failures |-> f1]

\* this.resetFailures(p); return result
CacheAfterSuccess(r, f, text) ==
    [call |-> Finish(Attempted(r, "ok"), Returned(DriverResult(r, r.provider, text))),
     failures |-> resetFailures(f, r.provider)]

CacheUnchanged ==
    UNCHANGED <<router, nodeEnv, upstashClient, azureClient, activeProvider,
                supabaseClient, azureDbClient, providerHealth, prev, stable, azureEvents,
                admin, abandoned>>

\* A caller invokes a method of unifiedRedis.
CacheCall(c, op, key, value, ex) ==
    /\ router = "cache"
    /\ calls[c].pc = "idle"
    /\ LET out == CacheTryPrimary(NewCall(op, key, value, ex), failures, now)
       IN  /\ calls' = [calls EXCEPT ![c] = out.call]
           /\ failures' = out.failures
    /\ UNCHANGED <<now, store>>
    /\ CacheUnchanged

\* mutant: what the serving provider stored is copied to the other provider
CacheResolve_Mirrored(c) ==
    /\ router = "cache"
    /\ calls[c].pc = "await"
    /\ LET r == calls[c]
           text == store[r.provider][r.key]
           out == CacheAfterSuccess(r, failures, text)
       IN  /\ calls' = [calls EXCEPT ![c] = out.call]
           /\ failures' = out.failures
           /\ store' = [p \in CacheProviders |->
                           [store[p] EXCEPT ![r.key] = DriverStore(r, r.provider, text)]]
    /\ UNCHANGED now
    /\ CacheUnchanged

\* The awaited provider command resolves.
CacheResolve(c) ==
    /\ router = "cache"
    /\ calls[c].pc = "await"
    /\ LET r == calls[c]
           text == store[r.provider][r.key]
           out == CacheAfterSuccess(r, failures, text)
       IN  /\ calls' = [calls EXCEPT ![c] = out.call]
           /\ failures' = out.failures
           /\ store' = [store EXCEPT ![r.provider][r.key] = DriverStore(r, r.provider, text)]
    /\ UNCHANGED now
    /\ CacheUnchanged

\* The awaited provider command rejects (driver error or driver timeout).
CacheReject(c) ==
    /\ router = "cache"
    /\ calls[c].pc = "await"
    /\ calls[c].provider \notin stable
    /\ failures[calls[c].provider] < MaxCount
    /\ LET out == CacheAfterFailure(calls[c], failures, now)
       IN  /\ calls' = [calls EXCEPT ![c] = out.call]
           /\ failures' = out.failures
    /\ UNCHANGED <<now, store>>
    /\ CacheUnchanged

\* The record an observer keeps of the events of the ioredis client: the
\* 'error' events emitted since the last 'connect' (since construction if
\* none), and whether 'connect' has been emitted.  Nothing is noted unless
\* the record is kept.
NoEvents == [kept |-> FALSE, errors |-> 0, connected |-> FALSE]
KeptEvents == [kept |-> TRUE, errors |-> 0, connected |-> FALSE]
NoteError(ev) == IF ev.kept THEN [ev EXCEPT !.errors = @ + 1] ELSE ev
NoteConnect(ev) == IF ev.kept THEN [ev EXCEPT !.errors = 0, !.connected = TRUE] ELSE ev

EventUnchanged ==
    UNCHANGED <<router, nodeEnv, upstashClient, azureClient, activeProvider,
                supabaseClient, azureDbClient, providerHealth, prev, stable,
                admin, abandoned>>

\* client.on('error', ...) of the ioredis client
AzureError ==
    /\ router = "cache"
    /\ azureClient
    /\ "azure" \notin stable
    /\ failures["azure"] < MaxCount
    /\ failures' = recordFailure(failures, "azure", now)
    /\ azureEvents' = NoteError(azureEvents)
    /\ UNCHANGED <<now, store, calls>>
    /\ EventUnchanged

\* client.on('connect', ...) of the ioredis client
AzureConnect ==
    /\ router = "cache"
    /\ azureClient
    /\ failures' = resetFailures(failures, "azure")
    /\ azureEvents' = NoteConnect(azureEvents)
    /\ UNCHANGED <<now, store, calls>>
    /\ EventUnchanged

\* The caller takes the outcome of its call.
Return(c) ==
    /\ calls[c].pc = "done"
    /\ calls' = [calls EXCEPT ![c] = NoCall]
    /\ UNCHANGED <<router, now, nodeEnv, upstashClient, azureClient, activeProvider,
                   failures, store, supabaseClient, azureDbClient, providerHealth,
                   prev, stable, azureEvents, admin, abandoned>>

\* The caller keeps the outcome of its first call and goes on to a second one.
Then(c) ==
    /\ calls[c].pc = "done"
    /\ prev[c].pc = "idle"
    /\ prev' = [prev EXCEPT ![c] = calls[c]]
    /\ calls' = [calls EXCEPT ![c] = NoCall]
    /\ UNCHANGED <<router, now, nodeEnv, upstashClient, azureClient, activeProvider,
                   failures, store, supabaseClient, azureDbClient, providerHealth,
                   stable, azureEvents, admin, abandoned>>

(***************************************************************************)
(* Circuit breaker of the data-store router.                               *)
(***************************************************************************)
dbRecordFailure(h, provider, t) ==
    LET n == h[provider].failures + 1
    IN  [h EXCEPT ![provider] =
            [failures |-> n, lastFailure |-> t,
             isCircuitOpen |-> IF n >= FAILURE_THRESHOLD THEN TRUE ELSE @.isCircuitOpen]]

\* mutant: the circuit is reset as soon as the reset time is reached
dbIsProviderAvailable_Inclusive(h, provider, t) ==
    LET h1 == IF h[provider].isCircuitOpen
                 /\ t - h[provider].lastFailure >= CIRCUIT_RESET_TIME
              THEN [h EXCEPT ![provider].failures = 0,
                             ![provider].isCircuitOpen = FALSE]
              ELSE h
    IN  [ret |-> ~h1[provider].isCircuitOpen, health |-> h1]

\* The value returned and the health the call leaves behind.
dbIsProviderAvailable(h, provider, t) ==
    LET h1 == IF h[provider].isCircuitOpen
                 /\ t - h[provider].lastFailure > CIRCUIT_RESET_TIME
              THEN [h EXCEPT ![provider].failures = 0,
                             ![provider].isCircuitOpen = FALSE]
              ELSE h
    IN  [ret |-> ~h1[provider].isCircuitOpen, health |-> h1]

\* mutant: a success clears the count and leaves the circuit as it was
recordSuccess_CountOnly(h, provider) ==
    [h EXCEPT ![provider].failures = IF @ > 0 THEN 0 ELSE @]

recordSuccess(h, provider) ==
    [h EXCEPT ![provider].failures = IF @ > 0 THEN 0 ELSE @,
              ![provider].isCircuitOpen = FALSE]

(***************************************************************************)
(* executeWithFailover of the data-store router.                           *)
(***************************************************************************)
DbOps == {"invoke", "$transaction", "$connect"}

ProviderError(p) == Thrown("error from " \o p)
TimeoutError == Thrown("Operation timeout")
AttemptError(outcome, p) == IF outcome = "timeout" THEN TimeoutError ELSE ProviderError(p)

\* mutant: with no provider to try the call resolves with undefined
DbTrySecondary_Silent(r, h, t) ==
    IF azureDbClient
    THEN LET chk == dbIsProviderAvailable(h, "azure", t)
         IN  IF chk.ret
             THEN [call |-> Issue(NoteReset(r, "azure", h, chk.health), "azure",
                                  t + OPERATION_TIMEOUT),
                   health |-> chk.health]
             ELSE [call |-> Finish(Skip(r, "azure"), Returned(NoValue)),
                   health |-> chk.health]
    ELSE [call |-> Finish(Skip(r, "azure"), Returned(NoValue)), health |-> h]

\* // Supabase unavailable, try Azure directly
DbTrySecondary(r, h, t) ==
    IF azureDbClient
    THEN LET chk == dbIsProviderAvailable(h, "azure", t)
         IN  IF chk.ret
             THEN [call |-> Issue(NoteReset(r, "azure", h, chk.health), "azure",
                                  t + OPERATION_TIMEOUT),
                   health |-> chk.health]
             ELSE [call |-> Finish(Skip(r, "azure"),
                                   Thrown("All database providers unavailable")),
                   health |-> chk.health]
    ELSE [call |-> Finish(Skip(r, "azure"), Thrown("All database providers unavailable")),
          health |-> h]

\* // Try Supabase first
DbTryPrimary(r, h, t) ==
    IF supabaseClient
    THEN LET chk == dbIsProviderAvailable(h, "supabase", t)
         IN  IF chk.ret
             THEN [call |-> Issue(NoteReset(r, "supabase", h, chk.health), "supabase",
                                  t + OPERATION_TIMEOUT),
                   health |-> chk.health]
             ELSE DbTrySecondary(Skip(r, "supabase"), chk.health, t)
    ELSE DbTrySecondary(Skip(r, "supabase"), h, t)

\* catch (error) { recordFailure('supabase'); // Try Azure as fallback ... throw error }
DbFailover(r, h, t, error) ==
    IF azureDbClient
    THEN LET chk == dbIsProviderAvailable(h, "azure", t)
         IN  IF chk.ret
             THEN [call |-> Issue(NoteReset(r, "azure", h, chk.health), "azure",
                                  t + OPERATION_TIMEOUT),
                   health |-> chk.health]
             ELSE [call |-> Finish(Skip(r, "azure"), error), health |-> chk.health]
    ELSE [call |-> Finish(Skip(r, "azure"), error), health |-> h]

\* mutant: a timeout is passed on without being counted
DbAfterFailure_TimeoutUncounted(r, h, t, outcome) ==
    LET p == r.provider
        h1 == IF outcome = "timeout" THEN h ELSE dbRecordFailure(h, p, t)
        r1 == Attempted(r, outcome)
    IN  IF p = "supabase"
        THEN DbFailover(r1, h1, t, AttemptError(outcome, p))
        ELSE [call |-> Finish(r1, AttemptError(outcome, p)), health |-> h1]

\* mutant: a failure of the backup sends the call back to Supabase
DbAfterFailure_Retry(r, h, t, outcome) ==
    LET p == r.provider
        h1 == dbRecordFailure(h, p, t)
        r1 == Attempted(r, outcome)
    IN  IF p = "supabase"
        THEN DbFailover(r1, h1, t, AttemptError(outcome, p))
        ELSE IF supabaseClient
             THEN [call |-> Issue(r1, "supabase", t + OPERATION_TIMEOUT), health |-> h1]
             ELSE [call |-> Finish(r1, AttemptError(outcome, p)), health |-> h1]

\* The catch block of the attempt that failed with `outcome`.
DbAfterFailure(r, h, t, outcome) ==
    LET p == r.provider
        h1 == dbRecordFailure(h, p, t)
        r1 == Attempted(r, outcome)
    IN  IF p = "supabase"
        THEN DbFailover(r1, h1, t, AttemptError(outcome, p))
        ELSE [call |-> Finish(r1, AttemptError(outcome, p)), health |-> h1]

\* recordSuccess(p); return result
DbAfterSuccess(r, h) ==
    [call |-> Finish(Attempted(r, "ok"), Returned(Reply(r.provider))),
     health |-> recordSuccess(h, r.provider)]

DbUnchanged ==
    UNCHANGED <<router, nodeEnv, upstashClient, azureClient, activeProvider,
                failures, store, supabaseClient, azureDbClient, prev, stable,
                azureEvents, admin>>

\* A caller invokes db.<model>.<method>(...), db.$transaction or db.$connect.
DbCall(c, op) ==
    /\ router = "db"
    /\ calls[c].pc = "idle"
    /\ LET out == DbTryPrimary(NewCall(op, "none", NoValue, 0), providerHealth, now)
       IN  /\ calls' = [calls EXCEPT ![c] = out.call]
           /\ providerHealth' = out.health
    /\ UNCHANGED <<now, abandoned>>
    /\ DbUnchanged

\* operation(client) resolves before the deadline.
DbResolve(c) ==
    /\ router = "db"
    /\ calls[c].pc = "await"
    /\ LET out == DbAfterSuccess(calls[c], providerHealth)
       IN  /\ calls' = [calls EXCEPT ![c] = out.call]
           /\ providerHealth' = out.health
    /\ UNCHANGED <<now, abandoned>>
    /\ DbUnchanged

\* operation(client) rejects before the deadline.
DbReject(c) ==
    /\ router = "db"
    /\ calls[c].pc = "await"
    /\ calls[c].provider \notin stable
    /\ providerHealth[calls[c].provider].failures < MaxCount
    /\ LET out == DbAfterFailure(calls[c], providerHealth, now, "error")
       IN  /\ calls' = [calls EXCEPT ![c] = out.call]
           /\ providerHealth' = out.health
    /\ UNCHANGED <<now, abandoned>>
    /\ DbUnchanged

\* The timer of withTimeout fires first: the race is settled and the call
\* of the provider goes on without anyone awaiting it.
DbTimeout(c) ==
    /\ router = "db"
    /\ calls[c].pc = "await"
    /\ now >= calls[c].deadline
    /\ calls[c].provider \notin stable
    /\ providerHealth[calls[c].provider].failures < MaxCount
    /\ LET out == DbAfterFailure(calls[c], providerHealth, now, "timeout")
       IN  /\ calls' = [calls EXCEPT ![c] = out.call]
           /\ providerHealth' = out.health
    /\ abandoned' = abandoned \cup {calls[c].provider}
    /\ UNCHANGED now
    /\ DbUnchanged

(***************************************************************************)
(* Time.  A timer that is due fires before the clock moves past it.        *)
(***************************************************************************)
Tick(t) ==
    /\ t > now
    /\ \A c \in Callers :
          (router = "db" /\ calls[c].pc = "await") => t <= calls[c].deadline
    /\ (router = "db" /\ dbProbe.pc \in DbProviders) => t <= dbProbe.deadline
    /\ now' = t
    /\ UNCHANGED <<router, nodeEnv, upstashClient, azureClient, activeProvider,
                   failures, store, supabaseClient, azureDbClient, providerHealth,
                   calls, prev, stable, azureEvents, admin, abandoned>>

(***************************************************************************)
(* $disconnect of the data-store router.  The teardown of every client is  *)
(* started before the first await; Promise.all rejects with the first      *)
(* rejection and resolves when every teardown has resolved.                *)
(***************************************************************************)
NoTeardown == [pc |-> "idle", issued |-> {}, pending |-> {}, result |-> NoResult]

\* mutant: only the providers whose breaker is closed are torn down
DisconnectTargets_AvailableOnly ==
    {p \in DbProviders :
        /\ (IF p = "supabase" THEN supabaseClient ELSE azureDbClient)
        /\ ~providerHealth[p].isCircuitOpen}

\* if (supabaseClient) promises.push(...); if (azureClient) promises.push(...)
DisconnectTargets ==
    (IF supabaseClient THEN {"supabase"} ELSE {})
        \cup (IF azureDbClient THEN {"azure"} ELSE {})

TeardownUnchanged ==
    UNCHANGED <<router, now, nodeEnv, upstashClient, azureClient, activeProvider,
                failures, store, supabaseClient, azureDbClient, providerHealth,
                calls, prev, stable, azureEvents, snapshot, probe, abandoned,
                dbProbe, apps>>

\* db.$disconnect() up to its await
DbDisconnect ==
    /\ router = "db"
    /\ teardown.pc = "idle"
    /\ teardown' =
          IF DisconnectTargets = {}
          THEN [NoTeardown EXCEPT !.pc = "done", !.result = Returned(NoValue)]
          ELSE [pc |-> "await", issued |-> DisconnectTargets,
                pending |-> DisconnectTargets, result |-> NoResult]
    /\ TeardownUnchanged

\* client.$disconnect() of provider p resolves
DisconnectResolve(p) ==
    /\ router = "db"
    /\ p \in teardown.pending
    /\ LET left == teardown.pending \ {p}
           last == teardown.pc = "await" /\ left = {}
       IN  teardown' = [teardown EXCEPT !.pending = left,
                                        !.pc = IF last THEN "done" ELSE @,
                                        !.result = IF last THEN Returned(NoValue) ELSE @]
    /\ TeardownUnchanged

\* client.$disconnect() of provider p rejects
DisconnectReject(p) ==
    /\ router = "db"
    /\ p \in teardown.pending
    /\ teardown' = [teardown EXCEPT
                       !.pending = @ \ {p},
                       !.pc = "done",
                       !.result = IF teardown.pc = "await"
                                  THEN Thrown("error from " \o p) ELSE @]
    /\ TeardownUnchanged

\* the caller has the outcome and every teardown has settled
DisconnectReturn ==
    /\ teardown.pc = "done"
    /\ teardown.pending = {}
    /\ teardown' = NoTeardown
    /\ TeardownUnchanged

(***************************************************************************)
(* withTimeout does not cancel the promise it raced: the call of the       *)
(* provider settles later, with nothing of the router awaiting it.         *)
(***************************************************************************)
\* mutant: the late outcome is recorded as a success of the provider
LateSettle_Recorded(p) ==
    /\ router = "db"
    /\ p \in abandoned
    /\ abandoned' = abandoned \ {p}
    /\ providerHealth' = recordSuccess(providerHealth, p)
    /\ UNCHANGED <<now, calls>>
    /\ DbUnchanged

\* The call of p that was given up on resolves or rejects.
LateSettle(p) ==
    /\ router = "db"
    /\ p \in abandoned
    /\ abandoned' = abandoned \ {p}
    /\ UNCHANGED <<now, calls, providerHealth>>
    /\ DbUnchanged

(***************************************************************************)
(* healthCheck of the data-store router: SELECT 1 on Supabase, then on     *)
(* Azure, each under a timeout of its own.                                 *)
(***************************************************************************)
\* withTimeout(client.$queryRaw`SELECT 1`, 3000)
ProbeTimeout == 3000

NoDbResults == [p \in DbProviders |-> [available |-> FALSE, latency |-> 0]]
\* issued lists the providers the probe has queried
NoDbProbe ==
    [pc |-> "idle", start |-> 0, deadline |-> 0, issued |-> {}, results |-> NoDbResults]

\* mutant: a provider whose circuit is open is not probed
DbProbeTargets_ClosedOnly ==
    {p \in DbProviders :
        /\ (IF p = "supabase" THEN supabaseClient ELSE azureDbClient)
        /\ ~providerHealth[p].isCircuitOpen}

\* if (supabaseClient) { ... }  if (azureClient) { ... }
DbProbeTargets ==
    (IF supabaseClient THEN {"supabase"} ELSE {})
        \cup (IF azureDbClient THEN {"azure"} ELSE {})

\* const start = Date.now(); await withTimeout(client.$queryRaw`SELECT 1`, 3000)
DbProbeQuery(d, p, t) ==
    [d EXCEPT !.pc = p, !.start = t, !.deadline = t + ProbeTimeout,
              !.issued = @ \cup {p}]

\* // Test Azure ... return results
DbProbeAzure(d, t) ==
    IF "azure" \in DbProbeTargets THEN DbProbeQuery(d, "azure", t)
    ELSE [d EXCEPT !.pc = "done"]

\* // Test Supabase
DbProbeSupabase(d, t) ==
    IF "supabase" \in DbProbeTargets THEN DbProbeQuery(d, "supabase", t)
    ELSE DbProbeAzure(d, t)

\* what follows the try/catch of provider p
DbProbeAfter(d, p, t) ==
    IF p = "supabase" THEN DbProbeAzure(d, t) ELSE [d EXCEPT !.pc = "done"]

DbProbeUnchanged ==
    UNCHANGED <<router, now, nodeEnv, upstashClient, azureClient, activeProvider,
                failures, store, supabaseClient, azureDbClient, providerHealth,
                calls, prev, stable, azureEvents, teardown, snapshot, probe, apps>>

\* A caller invokes db.healthCheck(): up to its first await.
DbHealthCheck ==
    /\ router = "db"
    /\ dbProbe.pc = "idle"
    /\ dbProbe' = DbProbeSupabase(NoDbProbe, now)
    /\ UNCHANGED abandoned
    /\ DbProbeUnchanged

\* SELECT 1 resolves: results.p.available = true; results.p.latency = Date.now() - start
DbProbeResolve ==
    /\ router = "db"
    /\ dbProbe.pc \in DbProviders
    /\ LET p == dbProbe.pc
           d == [dbProbe EXCEPT !.results[p] =
                    [available |-> TRUE, latency |-> now - dbProbe.start]]
       IN  dbProbe' = DbProbeAfter(d, p, now)
    /\ UNCHANGED abandoned
    /\ DbProbeUnchanged

\* SELECT 1 rejects: catch (error) { console.error(...) }
DbProbeReject ==
    /\ router = "db"
    /\ dbProbe.pc \in DbProviders
    /\ dbProbe' = DbProbeAfter(dbProbe, dbProbe.pc, now)
    /\ UNCHANGED abandoned
    /\ DbProbeUnchanged

\* The timer of withTimeout fires first: catch (error) { console.error(...) }
DbProbeTimeout ==
    /\ router = "db"
    /\ dbProbe.pc \in DbProviders
    /\ now >= dbProbe.deadline
    /\ dbProbe' = DbProbeAfter(dbProbe, dbProbe.pc, now)
    /\ abandoned' = abandoned \cup {dbProbe.pc}
    /\ DbProbeUnchanged

\* The caller has taken the results.
DbProbeReturn ==
    /\ dbProbe.pc = "done"
    /\ dbProbe' = NoDbProbe
    /\ UNCHANGED abandoned
    /\ DbProbeUnchanged

(***************************************************************************)
(* getHealthStatus and healthCheck of the cache router.                    *)
(***************************************************************************)
NoSnapshot ==
    [taken |-> FALSE, active |-> "none",
     upstash |-> [configured |-> FALSE, available |-> FALSE, failures |-> 0],
     azure |-> [configured |-> FALSE, available |-> FALSE, failures |-> 0]]

\* mutant: configured is reported from the availability check
getHealthStatus_FromBreaker(f, t) ==
    LET u == isProviderAvailable(f, "upstash", t)
        a == isProviderAvailable(u.failures, "azure", t)
    IN  [status |-> [taken |-> TRUE, active |-> activeProvider,
                     upstash |-> [configured |-> u.ret, available |-> u.ret,
                                  failures |-> u.failures["upstash"]],
                     azure |-> [configured |-> a.ret, available |-> a.ret,
                                failures |-> a.failures["azure"]]],
         failures |-> a.failures]

\* mutant: the counts are read before the availability checks are made
getHealthStatus_StaleCounts(f, t) ==
    LET u == isProviderAvailable(f, "upstash", t)
        a == isProviderAvailable(u.failures, "azure", t)
    IN  [status |-> [taken |-> TRUE, active |-> activeProvider,
                     upstash |-> [configured |-> upstashClient, available |-> u.ret,
                                  failures |-> f["upstash"]],
                     azure |-> [configured |-> azureClient, available |-> a.ret,
                                failures |-> f["azure"]]],
         failures |-> a.failures]

\* The object returned and the tracker its two availability checks leave.
getHealthStatus(f, t) ==
    LET u == isProviderAvailable(f, "upstash", t)
        a == isProviderAvailable(u.failures, "azure", t)
    IN  [status |-> [taken |-> TRUE, active |-> activeProvider,
                     upstash |-> [configured |-> upstashClient, available |-> u.ret,
                                  failures |-> u.failures["upstash"]],
                     azure |-> [configured |-> azureClient, available |-> a.ret,
                                failures |-> a.failures["azure"]]],
         failures |-> a.failures]

HealthUnchanged ==
    UNCHANGED <<router, now, nodeEnv, upstashClient, azureClient, activeProvider,
                store, supabaseClient, azureDbClient, providerHealth, prev, stable,
                azureEvents, teardown, abandoned, dbProbe, apps>>

\* A caller invokes unifiedRedis.getHealthStatus().
HealthStatusCall ==
    /\ router = "cache"
    /\ ~snapshot.taken
    /\ LET out == getHealthStatus(failures, now)
       IN  /\ snapshot' = out.status
           /\ failures' = out.failures
    /\ UNCHANGED <<calls, probe>>
    /\ HealthUnchanged

\* The caller has taken the object.
HealthStatusReturn ==
    /\ snapshot.taken
    /\ snapshot' = NoSnapshot
    /\ UNCHANGED <<failures, calls, probe>>
    /\ HealthUnchanged

\* const testKey = `health:check:${Date.now()}`
testKey(t) == "health:check:" \o ToString(t)
\* the keys callers and probes use
StoreKeys == Keys \cup {testKey(t) : t \in Instants}

\* steps lists the calls of the probe that have completed, and the provider
\* that served each
NoProbe ==
    [pc |-> "idle", startTime |-> 0, key |-> "none", steps |-> <<>>,
     status |-> "none", latency |-> -1, provider |-> "none", details |-> NoSnapshot]

\* mutant: any completed round trip is healthy
healthCheckStatus_Completed(result) == "healthy"

\* status: result === 'ok' ? 'healthy' : 'degraded'
healthCheckStatus(result) == IF result = Str("ok") THEN "healthy" ELSE "degraded"

\* Caller c invokes unifiedRedis.healthCheck(): up to the await of set.
ProbeStart(c) ==
    /\ router = "cache"
    /\ probe.pc = "idle"
    /\ calls[c].pc = "idle"
    /\ LET out == CacheTryPrimary(NewCall("set", testKey(now), Str("ok"), 10),
                                  failures, now)
       IN  /\ calls' = [calls EXCEPT ![c] = out.call]
           /\ failures' = out.failures
    /\ probe' = [NoProbe EXCEPT !.pc = "set", !.startTime = now, !.key = testKey(now)]
    /\ UNCHANGED snapshot
    /\ HealthUnchanged

\* The call the probe awaits has completed: the probe goes on to its next
\* call, or returns.
ProbeStep(c) ==
    /\ router = "cache"
    /\ probe.pc \in {"set", "get", "del"}
    /\ calls[c].pc = "done"
    /\ LET r == calls[c]
           steps == Append(probe.steps,
                           [op |-> r.op, served |-> Served(r),
                            by |-> IF Served(r) THEN ServedBy(r) ELSE "none",
                            result |-> r.result])
           hs == getHealthStatus(failures, now)
           next == CacheTryPrimary(
                       NewCall(IF probe.pc = "set" THEN "get" ELSE "del",
                               probe.key, NoValue, 0),
                       failures, now)
       IN  IF r.result.kind = "throw"
           THEN /\ probe' = [probe EXCEPT !.pc = "done", !.steps = steps,
                                          !.status = "unhealthy",
                                          !.provider = activeProvider,
                                          !.details = hs.status]
                /\ failures' = hs.failures
                /\ calls' = [calls EXCEPT ![c] = NoCall]
           ELSE IF probe.pc = "del"
           THEN /\ probe' = [probe EXCEPT !.pc = "done", !.steps = steps,
                                          !.status = healthCheckStatus(steps[2].result.value),
                                          !.latency = now - probe.startTime,
                                          !.provider = activeProvider,
                                          !.details = hs.status]
                /\ failures' = hs.failures
                /\ calls' = [calls EXCEPT ![c] = NoCall]
           ELSE /\ probe' = [probe EXCEPT !.pc = IF probe.pc = "set" THEN "get" ELSE "del",
                                          !.steps = steps]
                /\ failures' = next.failures
                /\ calls' = [calls EXCEPT ![c] = next.call]
    /\ UNCHANGED snapshot
    /\ HealthUnchanged

\* The caller has taken the outcome of the probe.
ProbeReturn ==
    /\ probe.pc = "done"
    /\ probe' = NoProbe
    /\ UNCHANGED <<failures, calls, snapshot>>
    /\ HealthUnchanged

(***************************************************************************)
(* The state of the data-access layer while another module is exercised,   *)
(* and what the steps of the other modules leave alone.                    *)
(***************************************************************************)
LayerIdle ==
    /\ now = StartTime
    /\ nodeEnv = "production"
    /\ upstashClient = FALSE /\ azureClient = FALSE
    /\ supabaseClient = FALSE /\ azureDbClient = FALSE
    /\ activeProvider = "none"
    /\ failures = [upstash |-> 0, azure |-> 0,
                   lastUpstashFailure |-> 0, lastAzureFailure |-> 0]
    /\ store = [p \in CacheProviders |-> [k \in StoreKeys |-> Nil]]
    /\ providerHealth =
          [p \in DbProviders |->
              [failures |-> 0, lastFailure |-> 0, isCircuitOpen |-> FALSE]]
    /\ calls = [c \in Callers |-> NoCall]
    /\ prev = [c \in Callers |-> NoCall]
    /\ stable = {}
    /\ azureEvents = NoEvents
    /\ teardown = NoTeardown
    /\ snapshot = NoSnapshot
    /\ probe = NoProbe
    /\ abandoned = {}
    /\ dbProbe = NoDbProbe

LayerUnchanged ==
    UNCHANGED <<router, nodeEnv, upstashClient, azureClient, activeProvider,
                failures, store, supabaseClient, azureDbClient, providerHealth,
                calls, prev, stable, azureEvents, teardown, snapshot, probe,
                abandoned, dbProbe>>

(***************************************************************************)
(* streamChatWithAI of ai.ts.  The text of the answer is the sequence of   *)
(* the deltas received; a delta is a piece of 30 or of 60 characters.  The *)
(* provider sends one data line per read.                                  *)
(***************************************************************************)
\* setTimeout(() => controller.abort(), 90000)
STREAM_TIMEOUT == 90000
UPDATE_INTERVAL == 1500
\* accumulatedContent.length > 50
MinUpdateLength == 50

\* the content deltas a data line carries
Deltas == {"piece30", "piece60"}
DeltaLength(d) == IF d = "piece30" THEN 30 ELSE 60
\* the most content deltas of one answer
MaxDeltas == 3

RECURSIVE TextLength(_)
TextLength(text) ==
    IF text = <<>> THEN 0 ELSE DeltaLength(Head(text)) + TextLength(Tail(text))

\* AIResponse: content is the answer when success, the apology otherwise
AIResponse(success, content, apology, error) ==
    [success |-> success, content |-> content, apology |-> apology, error |-> error]
NoResponse == AIResponse(FALSE, <<>>, "none", "none")

\* timeout: the instant the abort is due, -1 once cleared
\* readAt: const now = Date.now() of the update in progress
\* updates: the invocations of onChunk so far, text and instant
NoStream ==
    [pc |-> "idle", timeout |-> -1, accumulatedContent |-> <<>>,
     lastUpdateTime |-> 0, readAt |-> 0, updates |-> <<>>, result |-> NoResponse]

StreamReturn(st, response) ==
    [st EXCEPT !.pc = "done", !.timeout = -1, !.result = response]

\* catch (error: any) { clearTimeout(timeout); ... } for an error other than the abort
StreamFailed(st) ==
    StreamReturn(st, AIResponse(FALSE, <<>>, "Something went wrong. Please try again.",
                                "error"))

\* if (now - lastUpdateTime > UPDATE_INTERVAL && accumulatedContent.length > 50)
ShouldUpdate(st, t) ==
    /\ t - st.lastUpdateTime > UPDATE_INTERVAL
    /\ TextLength(st.accumulatedContent) > MinUpdateLength

\* mutant: the callback is given the latest delta only
InvokeOnChunk_DeltaOnly(st, t) ==
    [st EXCEPT !.updates =
        Append(@, [text |-> <<st.accumulatedContent[Len(st.accumulatedContent)]>>,
                   at |-> t])]

\* await onChunk(accumulatedContent), up to the await
InvokeOnChunk(st, t) ==
    [st EXCEPT !.updates = Append(@, [text |-> st.accumulatedContent, at |-> t])]

StreamUnchanged ==
    /\ UNCHANGED <<limiter, referralDb, jobs>>
    /\ LayerUnchanged

\* streamChatWithAI(...) up to the await of fetch
StreamCall(apiKey) ==
    /\ router = "stream"
    /\ stream.pc = "idle"
    /\ stream' = IF ~apiKey
                 THEN StreamReturn(stream,
                          AIResponse(FALSE, <<>>,
                                     "AI is not configured. Please contact support.",
                                     "API key missing"))
                 ELSE [stream EXCEPT !.pc = "fetch", !.timeout = now + STREAM_TIMEOUT]
    /\ UNCHANGED now
    /\ StreamUnchanged

\* fetch resolves with the response: clearTimeout(timeout), then the status
\* and the reader
FetchResolve(ok, reader) ==
    /\ router = "stream"
    /\ stream.pc = "fetch"
    /\ stream' = IF ~ok THEN [stream EXCEPT !.pc = "text", !.timeout = -1]
                 ELSE IF ~reader
                 THEN StreamReturn(stream,
                          AIResponse(FALSE, <<>>, "Could not read stream.", "No reader"))
                 ELSE [stream EXCEPT !.pc = "read", !.timeout = -1]
    /\ UNCHANGED now
    /\ StreamUnchanged

\* fetch rejects with a network error
FetchReject ==
    /\ router = "stream"
    /\ stream.pc = "fetch"
    /\ stream' = StreamFailed(stream)
    /\ UNCHANGED now
    /\ StreamUnchanged

\* the timer fires: controller.abort() rejects the fetch with an AbortError
FetchAbort ==
    /\ router = "stream"
    /\ stream.pc = "fetch"
    /\ stream.timeout >= 0
    /\ now >= stream.timeout
    /\ stream' = StreamReturn(stream,
                     AIResponse(FALSE, <<>>, "AI took too long. Please try again.",
                                "Timeout"))
    /\ UNCHANGED now
    /\ StreamUnchanged

\* await response.text() of a response that is not ok
ErrorTextResolve ==
    /\ router = "stream"
    /\ stream.pc = "text"
    /\ stream' = StreamReturn(stream,
                     AIResponse(FALSE, <<>>, "AI returned error. Try again.", "API error"))
    /\ UNCHANGED now
    /\ StreamUnchanged

ErrorTextReject ==
    /\ router = "stream"
    /\ stream.pc = "text"
    /\ stream' = StreamFailed(stream)
    /\ UNCHANGED now
    /\ StreamUnchanged

\* reader.read() resolves with a data line that carries the delta
ReadDelta(delta) ==
    /\ router = "stream"
    /\ stream.pc = "read"
    /\ Len(stream.accumulatedContent) < MaxDeltas
    /\ LET st == [stream EXCEPT !.accumulatedContent = Append(@, delta)]
       IN  stream' = IF ShouldUpdate(st, now)
                     THEN [InvokeOnChunk(st, now) EXCEPT !.pc = "chunk", !.readAt = now]
                     ELSE st
    /\ UNCHANGED now
    /\ StreamUnchanged

\* reader.read() resolves with lines that carry no content: [DONE], an empty
\* delta, malformed JSON, a comment
ReadOther ==
    /\ router = "stream"
    /\ stream.pc = "read"
    /\ UNCHANGED <<now, stream>>
    /\ StreamUnchanged

\* reader.read() resolves with done: the final update, or the empty response
ReadDone ==
    /\ router = "stream"
    /\ stream.pc = "read"
    /\ stream' = IF stream.accumulatedContent # <<>>
                 THEN [InvokeOnChunk(stream, now) EXCEPT !.pc = "final"]
                 ELSE StreamReturn(stream,
                          AIResponse(FALSE, <<>>, "Got an empty response.", "Empty stream"))
    /\ UNCHANGED now
    /\ StreamUnchanged

\* reader.read() rejects
ReadReject ==
    /\ router = "stream"
    /\ stream.pc = "read"
    /\ stream' = StreamFailed(stream)
    /\ UNCHANGED now
    /\ StreamUnchanged

\* onChunk resolves: lastUpdateTime = now, or the return of the answer
OnChunkResolve ==
    /\ router = "stream"
    /\ stream.pc \in {"chunk", "final"}
    /\ stream' = IF stream.pc = "chunk"
                 THEN [stream EXCEPT !.pc = "read", !.lastUpdateTime = stream.readAt]
                 ELSE StreamReturn(stream,
                          AIResponse(TRUE, stream.accumulatedContent, "none", "none"))
    /\ UNCHANGED now
    /\ StreamUnchanged

\* onChunk rejects: within the loop the catch of JSON.parse swallows it, after
\* the loop it is the error of the call
OnChunkReject ==
    /\ router = "stream"
    /\ stream.pc \in {"chunk", "final"}
    /\ stream' = IF stream.pc = "chunk" THEN [stream EXCEPT !.pc = "read"]
                 ELSE StreamFailed(stream)
    /\ UNCHANGED now
    /\ StreamUnchanged

\* Time passes during a call; the abort fires when it is due.
StreamTick(t) ==
    /\ router = "stream"
    /\ stream.pc \notin {"idle", "done"}
    /\ t > now
    /\ stream.timeout >= 0 => t <= stream.timeout
    /\ now' = t
    /\ UNCHANGED stream
    /\ StreamUnchanged

(***************************************************************************)
(* checkSecurityRateLimit of security.ts.                                  *)
(***************************************************************************)
Identifiers == {"ip1", "ip2"}
\* the most calls of checkSecurityRateLimit in a behaviour
MaxCalls == 4
\* how far the clock of the rate limiter runs, in ms
MaxElapsed == 3000
\* the steps of that clock
LimitSteps == {500, 1000}
\* options.maxRequests and options.windowMs of the callers
MaxRequestsOptions == {0, 1, 2}
WindowOptions == {1000, 1500}

NoEntry == [present |-> FALSE, count |-> 0, resetAt |-> 0]
NoLimiter ==
    [maxRequests |-> 0, windowMs |-> 0,
     rateLimitStore |-> [k \in Identifiers |-> NoEntry], log |-> <<>>]

\* Math.ceil(ms / 1000) for ms >= 0
CeilSeconds(ms) == (ms + 999) \div 1000

\* The store the call leaves and the object it returns (retryAfter is -1
\* when the property is absent).
checkSecurityRateLimit(rateLimitStore, maxRequests, windowMs, identifier, t) ==
    LET \* // Clean up expired entries
        kept == [k \in Identifiers |->
                    IF rateLimitStore[k].present /\ rateLimitStore[k].resetAt < t
                    THEN NoEntry ELSE rateLimitStore[k]]
        entry == kept[identifier]
        fresh == [present |-> TRUE, count |-> 1, resetAt |-> t + windowMs]
    IN  IF ~entry.present
        THEN [store |-> [kept EXCEPT ![identifier] = fresh],
              allowed |-> TRUE, retryAfter |-> -1]
        ELSE IF entry.resetAt < t
        THEN [store |-> [kept EXCEPT ![identifier] = fresh],
              allowed |-> TRUE, retryAfter |-> -1]
        ELSE IF entry.count >= maxRequests
        THEN [store |-> kept, allowed |-> FALSE,
              retryAfter |-> CeilSeconds(entry.resetAt - t)]
        ELSE [store |-> [kept EXCEPT ![identifier].count = @ + 1],
              allowed |-> TRUE, retryAfter |-> -1]

LimitUnchanged ==
    /\ UNCHANGED <<stream, referralDb, jobs>>
    /\ LayerUnchanged

\* A request handler calls checkSecurityRateLimit for the identifier.
LimitCheck(identifier) ==
    /\ router = "limit"
    /\ Len(limiter.log) < MaxCalls
    /\ LET out == checkSecurityRateLimit(limiter.rateLimitStore, limiter.maxRequests,
                                         limiter.windowMs, identifier, now)
       IN  limiter' = [limiter EXCEPT
                          !.rateLimitStore = out.store,
                          !.log = Append(@, [identifier |-> identifier, at |-> now,
                                             allowed |-> out.allowed,
                                             retryAfter |-> out.retryAfter])]
    /\ UNCHANGED now
    /\ LimitUnchanged

\* Time passes between requests.
LimitTick(d) ==
    /\ router = "limit"
    /\ now + d <= StartTime + MaxElapsed
    /\ now' = now + d
    /\ UNCHANGED limiter
    /\ LimitUnchanged

(***************************************************************************)
(* trackReferralSignup and completeReferral of referrals.ts.  Every await  *)
(* of a Prisma call is a scheduling point: the query reads or writes the   *)
(* tables when it completes.  u1 owns the referral code "code1".           *)
(***************************************************************************)
Users == {"u1", "u2"}
Workers == {"w1", "w2"}
\* the calls one worker makes
MaxJobs == 2
\* the Prisma calls that reject in a behaviour
MaxFaults == 1

\* REWARDS.FIRST_REFERRAL
RewardProTrialDays == 3
RewardCredits == 50

NoRewards == [present |-> FALSE, proTrialDays |-> 0, credits |-> 0, totalReferrals |-> 0]
\* uniqueReferredId: whether the schema, which is not part of the sources,
\* declares Referral.referredId unique
NoReferrals ==
    [uniqueReferredId |-> FALSE, referrals |-> <<>>,
     userRewards |-> [u \in Users |-> NoRewards], faults |-> 0]

NoJob ==
    [pc |-> "idle", fn |-> "none", code |-> "none", user |-> "none",
     referrerId |-> "none", referralId |-> 0, returned |-> "none", left |-> MaxJobs]
NoJobs == [w \in Workers |-> NoJob]

\* prisma.user.findUnique({ where: { referralCode: code } })?.id || null
getUserIdFromReferralCode(code) == IF code = "code1" THEN "u1" ELSE "null"

\* prisma.referral.findFirst({ where: { referredId } })
ExistingReferral(db, referredId) ==
    \E i \in 1..Len(db.referrals) : db.referrals[i].referredId = referredId

\* prisma.referral.findFirst({ where: { referredId, status: 'PENDING' } }), 0 for null
PendingReferral(db, referredId) ==
    LET found == {i \in 1..Len(db.referrals) :
                     /\ db.referrals[i].referredId = referredId
                     /\ db.referrals[i].status = "PENDING"}
    IN  IF found = {} THEN 0 ELSE CHOOSE i \in found : \A j \in found : i <= j

\* prisma.userRewards.upsert({ where: { userId }, create: {...}, update: { increment } })
upsertRewards(db, userId, days, credits, referrals) ==
    [db EXCEPT !.userRewards[userId] =
        IF @.present
        THEN [@ EXCEPT !.proTrialDays = @ + days, !.credits = @ + credits,
                       !.totalReferrals = @ + referrals]
        ELSE [present |-> TRUE, proTrialDays |-> days, credits |-> credits,
              totalReferrals |-> referrals]]

JobReturn(j, value) ==
    [j EXCEPT !.pc = "idle", !.returned = value]
JobStart(j, fn, code, user) ==
    [NoJob EXCEPT !.pc = IF fn = "trackReferralSignup" THEN "lookup" ELSE "find",
                  !.fn = fn, !.code = code, !.user = user, !.left = j.left - 1]

ReferralUnchanged ==
    /\ UNCHANGED <<now, stream, limiter>>
    /\ LayerUnchanged

\* trackReferralSignup(referralCode, newUserId) up to its first await
TrackCall(w, referralCode, newUserId) ==
    /\ router = "referral"
    /\ jobs[w].pc = "idle"
    /\ jobs[w].left > 0
    /\ jobs' = [jobs EXCEPT ![w] = JobStart(@, "trackReferralSignup", referralCode, newUserId)]
    /\ UNCHANGED referralDb
    /\ ReferralUnchanged

\* getUserIdFromReferralCode has resolved:
\* if (!referrerId || referrerId === newUserId) return false
TrackLookup(w) ==
    /\ router = "referral"
    /\ jobs[w].fn = "trackReferralSignup"
    /\ jobs[w].pc = "lookup"
    /\ LET referrerId == getUserIdFromReferralCode(jobs[w].code)
       IN  jobs' = [jobs EXCEPT ![w] =
                       IF referrerId = "null" \/ referrerId = @.user
                       THEN JobReturn(@, "false")
                       ELSE [@ EXCEPT !.pc = "existing", !.referrerId = referrerId]]
    /\ UNCHANGED referralDb
    /\ ReferralUnchanged

\* findFirst has resolved: if (existing) return false
TrackExisting(w) ==
    /\ router = "referral"
    /\ jobs[w].pc = "existing"
    /\ jobs' = [jobs EXCEPT ![w] =
                   IF ExistingReferral(referralDb, @.user)
                   THEN JobReturn(@, "false")
                   ELSE [@ EXCEPT !.pc = "create"]]
    /\ UNCHANGED referralDb
    /\ ReferralUnchanged

\* prisma.referral.create completes: return true, or the unique constraint
\* rejects it and the catch returns false
TrackCreate(w) ==
    /\ router = "referral"
    /\ jobs[w].pc = "create"
    /\ IF referralDb.uniqueReferredId /\ ExistingReferral(referralDb, jobs[w].user)
       THEN /\ jobs' = [jobs EXCEPT ![w] = JobReturn(@, "false")]
            /\ UNCHANGED referralDb
       ELSE /\ referralDb' =
                  [referralDb EXCEPT !.referrals =
                      Append(@, [referrerId |-> jobs[w].referrerId,
                                 referredId |-> jobs[w].user,
                                 status |-> "PENDING"])]
            /\ jobs' = [jobs EXCEPT ![w] = JobReturn(@, "true")]
    /\ ReferralUnchanged

\* completeReferral(referredUserId) up to its first await
CompleteCall(w, referredUserId) ==
    /\ router = "referral"
    /\ jobs[w].pc = "idle"
    /\ jobs[w].left > 0
    /\ jobs' = [jobs EXCEPT ![w] = JobStart(@, "completeReferral", "none", referredUserId)]
    /\ UNCHANGED referralDb
    /\ ReferralUnchanged

\* findFirst of the pending referral has resolved: if (!referral) return
CompleteFind(w) ==
    /\ router = "referral"
    /\ jobs[w].pc = "find"
    /\ LET id == PendingReferral(referralDb, jobs[w].user)
       IN  jobs' = [jobs EXCEPT ![w] =
                       IF id = 0 THEN JobReturn(@, "void")
                       ELSE [@ EXCEPT !.pc = "completed", !.referralId = id,
                                      !.referrerId = referralDb.referrals[id].referrerId]]
    /\ UNCHANGED referralDb
    /\ ReferralUnchanged

\* update({ where: { id }, data: { status: 'COMPLETED' } }) completes
CompleteStatus(w) ==
    /\ router = "referral"
    /\ jobs[w].pc = "completed"
    /\ referralDb' = [referralDb EXCEPT !.referrals[jobs[w].referralId].status = "COMPLETED"]
    /\ jobs' = [jobs EXCEPT ![w].pc = "referrer"]
    /\ ReferralUnchanged

\* the upsert of the referrer's rewards completes
CompleteReferrer(w) ==
    /\ router = "referral"
    /\ jobs[w].pc = "referrer"
    /\ referralDb' = upsertRewards(referralDb, jobs[w].referrerId,
                                   RewardProTrialDays, RewardCredits, 1)
    /\ jobs' = [jobs EXCEPT ![w].pc = "referred"]
    /\ ReferralUnchanged

\* the upsert of the referred user's rewards completes
CompleteReferred(w) ==
    /\ router = "referral"
    /\ jobs[w].pc = "referred"
    /\ referralDb' = upsertRewards(referralDb, jobs[w].user,
                                   RewardProTrialDays, RewardCredits, 0)
    /\ jobs' = [jobs EXCEPT ![w].pc = "rewarded"]
    /\ ReferralUnchanged

\* update({ where: { id }, data: { status: 'REWARDED' } }) completes; the
\* referrer's total stays below the milestones, so the call returns
CompleteRewarded(w) ==
    /\ router = "referral"
    /\ jobs[w].pc = "rewarded"
    /\ referralDb' = [referralDb EXCEPT !.referrals[jobs[w].referralId].status = "REWARDED"]
    /\ jobs' = [jobs EXCEPT ![w] = JobReturn(@, "void")]
    /\ ReferralUnchanged

\* The Prisma call awaited rejects: catch (error) { console.error(...) }
JobReject(w) ==
    /\ router = "referral"
    /\ jobs[w].pc # "idle"
    /\ referralDb.faults < MaxFaults
    /\ referralDb' = [referralDb EXCEPT !.faults = @ + 1]
    /\ jobs' = [jobs EXCEPT ![w] =
                   JobReturn(@, IF @.fn = "trackReferralSignup" THEN "false" ELSE "void")]
    /\ ReferralUnchanged

(***************************************************************************)
(* The state after construction.                                           *)
(***************************************************************************)
\* initialize(): the active provider is fixed at construction
initialActiveProvider(upstash, azure) ==
    IF upstash THEN "upstash" ELSE IF azure THEN "azure" ELSE "mock"

Constructed ==
    /\ router \in {"cache", "db"}
    /\ now = StartTime
    /\ nodeEnv \in {"production", "development"}
    /\ router = "db" => nodeEnv = "production"
    /\ upstashClient \in BOOLEAN
    /\ azureClient \in BOOLEAN
    /\ supabaseClient \in BOOLEAN
    /\ azureDbClient \in BOOLEAN
    /\ router = "cache" => ~supabaseClient /\ ~azureDbClient
    /\ router = "db" => ~upstashClient /\ ~azureClient
    /\ activeProvider = IF router = "cache"
                        THEN initialActiveProvider(upstashClient, azureClient)
                        ELSE "none"
    /\ failures = [upstash |-> 0, azure |-> 0,
                   lastUpstashFailure |-> 0, lastAzureFailure |-> 0]
    /\ store = [p \in CacheProviders |-> [k \in StoreKeys |-> Nil]]
    /\ providerHealth =
          [p \in DbProviders |->
              [failures |-> 0, lastFailure |-> 0, isCircuitOpen |-> FALSE]]
    /\ calls = [c \in Callers |-> NoCall]
    /\ prev = [c \in Callers |-> NoCall]
    /\ stable = {}
    /\ teardown = NoTeardown
    /\ snapshot = NoSnapshot
    /\ probe = NoProbe
    /\ abandoned = {}
    /\ dbProbe = NoDbProbe
    /\ stream = NoStream
    /\ limiter = NoLimiter
    /\ referralDb = NoReferrals
    /\ jobs = NoJobs

\* no record of the client's events is kept
Init == Constructed /\ azureEvents = NoEvents

\* The requests callers make of the cache router: method, key, value, expiry.
Requests(ops, values, expiries) ==
    {[op |-> op, key |-> k, value |-> NoValue, ex |-> 0] :
        op \in ops \ {"set", "setex"}, k \in Keys}
    \cup {[op |-> "set", key |-> k, value |-> v, ex |-> e] :
            k \in (IF "set" \in ops THEN Keys ELSE {}), v \in values, e \in expiries}
    \cup {[op |-> "setex", key |-> k, value |-> v, ex |-> e] :
            k \in (IF "setex" \in ops THEN Keys ELSE {}), v \in values,
            e \in expiries \ {0}}

\* Two concurrent callers: one reads and writes, the other reads.
CacheWorkload(c) ==
    IF c = "c1" THEN Requests({"get", "incr"}, {}, {}) ELSE Requests({"get"}, {}, {})
DbWorkload(c) == IF c = "c1" THEN DbOps ELSE {"invoke"}

Next ==
    \/ \E c \in Callers : \E a \in CacheWorkload(c) :
          CacheCall(c, a.op, a.key, a.value, a.ex)
    \/ \E c \in Callers : CacheResolve(c)
    \/ \E c \in Callers : CacheReject(c)
    \/ AzureError
    \/ AzureConnect
    \/ \E c \in Callers : \E op \in DbWorkload(c) : DbCall(c, op)
    \/ \E c \in Callers : DbResolve(c)
    \/ \E c \in Callers : DbReject(c)
    \/ \E c \in Callers : DbTimeout(c)
    \/ \E c \in Callers : Return(c)
    \/ \E t \in Instants : Tick(t)

Spec == Init /\ [][Next]_vars

(***************************************************************************)
(* One caller, every method of both routers, every value.                  *)
(***************************************************************************)
\* The values callers store.
Values == {ObjN(42), Num(42), Str("42"), Str("hello"), Str("")}
\* The expiry callers ask for (0: none).
Expiries == {0, 10}

NextSeq ==
    \/ \E a \in Requests(CacheOps, Values, Expiries) :
          CacheCall("c1", a.op, a.key, a.value, a.ex)
    \/ CacheResolve("c1")
    \/ CacheReject("c1")
    \/ \E op \in DbOps : DbCall("c1", op)
    \/ DbResolve("c1")
    \/ DbReject("c1")
    \/ DbTimeout("c1")
    \/ Return("c1")
    \/ Tick(StartTime + OPERATION_TIMEOUT)

SpecSeq == Init /\ [][NextSeq]_vars

(***************************************************************************)
(* Two consecutive calls of one caller of the cache router, from           *)
(* construction: a first call, whose outcome the caller keeps, and a       *)
(* second one.                                                             *)
(***************************************************************************)
NextRoundTrip ==
    \/ \E a \in Requests({"get", "set", "setex", "del"}, Values, Expiries) :
          CacheCall("c1", a.op, a.key, a.value, a.ex)
    \/ CacheResolve("c1")
    \/ CacheReject("c1")
    \/ Then("c1")

SpecRoundTrip == Init /\ [][NextRoundTrip]_vars

(***************************************************************************)
(* The data-store router with one caller of its methods and a caller of    *)
(* $disconnect.                                                            *)
(***************************************************************************)
NextDisconnect ==
    \/ DbCall("c1", "invoke")
    \/ DbResolve("c1")
    \/ DbReject("c1")
    \/ DbTimeout("c1")
    \/ Return("c1")
    \/ DbDisconnect
    \/ \E p \in DbProviders : DisconnectResolve(p)
    \/ \E p \in DbProviders : DisconnectReject(p)
    \/ DisconnectReturn
    \/ \E t \in Instants : Tick(t)

\* the module loaded is unified-database
InitDisconnect == Init /\ router = "db"
SpecDisconnect == InitDisconnect /\ [][NextDisconnect]_vars

(***************************************************************************)
(* The data-store router with one caller, whose attempts may time out, and *)
(* the calls that withTimeout gave up on settling afterwards.              *)
(***************************************************************************)
NextLate ==
    \/ DbCall("c1", "invoke")
    \/ DbResolve("c1")
    \/ DbReject("c1")
    \/ DbTimeout("c1")
    \/ Return("c1")
    \/ \E p \in DbProviders : LateSettle(p)
    \/ \E t \in Instants : Tick(t)

SpecLate == InitDisconnect /\ [][NextLate]_vars

(***************************************************************************)
(* The data-store router with one caller of its methods and a caller of    *)
(* healthCheck.                                                            *)
(***************************************************************************)
NextDbHealth ==
    \/ DbCall("c1", "invoke")
    \/ DbResolve("c1")
    \/ DbReject("c1")
    \/ DbTimeout("c1")
    \/ Return("c1")
    \/ DbHealthCheck
    \/ DbProbeResolve
    \/ DbProbeReject
    \/ DbProbeTimeout
    \/ DbProbeReturn
    \/ Tick(StartTime + ProbeTimeout)
    \/ Tick(StartTime + OPERATION_TIMEOUT)

SpecDbHealth == InitDisconnect /\ [][NextDbHealth]_vars

(***************************************************************************)
(* The cache router with a caller of healthCheck and a caller of           *)
(* getHealthStatus, before and after the reset time of the breakers.       *)
(***************************************************************************)
NextHealth ==
    \/ ProbeStart("c1")
    \/ ProbeStep("c1")
    \/ ProbeReturn
    \/ CacheResolve("c1")
    \/ CacheReject("c1")
    \/ HealthStatusCall
    \/ HealthStatusReturn
    \/ Tick(StartTime + FAILURE_RESET_TIME + 1)

\* the module loaded is unified-redis
InitHealth == Init /\ router = "cache"
SpecHealth == InitHealth /\ [][NextHealth]_vars

(***************************************************************************)
(* Two callers at once, each making two calls and keeping the outcome of   *)
(* the first, so that every attempt made since construction is on record,  *)
(* while the ioredis client emits 'error' and 'connect' as it pleases.     *)
(***************************************************************************)
NextConcurrent ==
    \/ \E c \in Callers : CacheCall(c, "get", "x", NoValue, 0)
    \/ \E c \in Callers : CacheResolve(c)
    \/ \E c \in Callers : CacheReject(c)
    \/ AzureError
    \/ AzureConnect
    \/ \E c \in Callers : DbCall(c, "invoke")
    \/ \E c \in Callers : DbResolve(c)
    \/ \E c \in Callers : DbReject(c)
    \/ \E c \in Callers : DbTimeout(c)
    \/ \E c \in Callers : Then(c)
    \/ Tick(StartTime + OPERATION_TIMEOUT)

\* the events of the ioredis client are on record too
InitConcurrent == Constructed /\ azureEvents = KeptEvents
SpecConcurrent == InitConcurrent /\ [][NextConcurrent]_vars

(***************************************************************************)
(* One call of streamChatWithAI.  The handler runs whenever it can, the    *)
(* clock advances and the callback returns; the provider is free to send   *)
(* nothing.                                                                *)
(***************************************************************************)
StreamOffsets == {1000, 1501, 2000, 3002, STREAM_TIMEOUT}
StreamProvider ==
    \/ \E ok \in BOOLEAN : \E reader \in BOOLEAN : FetchResolve(ok, reader)
    \/ FetchReject
    \/ ErrorTextResolve
    \/ ErrorTextReject
    \/ \E d \in Deltas : ReadDelta(d)
    \/ ReadOther
    \/ ReadDone
    \/ ReadReject
StreamCallback ==
    \/ OnChunkResolve
    \/ OnChunkReject
StreamClock == \E d \in StreamOffsets : StreamTick(StartTime + d)

NextStream ==
    \/ \E apiKey \in BOOLEAN : StreamCall(apiKey)
    \/ StreamProvider
    \/ StreamCallback
    \/ FetchAbort
    \/ StreamClock

InitStream ==
    /\ router = "stream"
    /\ LayerIdle
    /\ stream = NoStream
    /\ limiter = NoLimiter
    /\ referralDb = NoReferrals
    /\ jobs = NoJobs

SpecStream ==
    /\ InitStream
    /\ [][NextStream]_vars
    /\ WF_vars(\E apiKey \in BOOLEAN : StreamCall(apiKey))
    /\ WF_vars(StreamCallback)
    /\ WF_vars(FetchAbort)
    /\ WF_vars(StreamClock)

(***************************************************************************)
(* Requests of two identifiers checked against one rate limit.             *)
(***************************************************************************)
NextLimit ==
    \/ \E identifier \in Identifiers : LimitCheck(identifier)
    \/ \E d \in LimitSteps : LimitTick(d)

InitLimit ==
    /\ router = "limit"
    /\ LayerIdle
    /\ stream = NoStream
    /\ \E m \in MaxRequestsOptions : \E w \in WindowOptions :
          limiter = [NoLimiter EXCEPT !.maxRequests = m, !.windowMs = w]
    /\ referralDb = NoReferrals
    /\ jobs = NoJobs

SpecLimit == InitLimit /\ [][NextLimit]_vars

(***************************************************************************)
(* Two workers that sign users up by referral and complete referrals.  A   *)
(* call that has been made runs on whenever the database answers.          *)
(***************************************************************************)
TrackArguments == {<<"code1", "u1">>, <<"code1", "u2">>, <<"unknown", "u2">>}
JobProgress(w) ==
    \/ TrackLookup(w)
    \/ TrackExisting(w)
    \/ TrackCreate(w)
    \/ CompleteFind(w)
    \/ CompleteStatus(w)
    \/ CompleteReferrer(w)
    \/ CompleteReferred(w)
    \/ CompleteRewarded(w)

NextReferral ==
    \/ \E w \in Workers : \E a \in TrackArguments : TrackCall(w, a[1], a[2])
    \/ \E w \in Workers : CompleteCall(w, "u2")
    \/ \E w \in Workers : JobProgress(w)
    \/ \E w \in Workers : JobReject(w)

InitReferral ==
    /\ router = "referral"
    /\ LayerIdle
    /\ stream = NoStream
    /\ limiter = NoLimiter
    /\ \E unique \in BOOLEAN :
          referralDb = [NoReferrals EXCEPT !.uniqueReferredId = unique]
    /\ jobs = NoJobs

SpecReferral ==
    /\ InitReferral
    /\ [][NextReferral]_vars
    /\ \A w \in Workers : WF_vars(JobProgress(w))
    /\ WF_vars(\E w \in Workers : CompleteCall(w, "u2"))

(***************************************************************************)
(* Recovery.  A provider becomes healthy and stays so: from then on no     *)
(* attempt on it fails.  The clock keeps advancing, the caller keeps       *)
(* calling, and every request a provider received is answered.             *)
(***************************************************************************)
Heal(p) ==
    /\ p \notin stable
    /\ stable' = stable \cup {p}
    /\ UNCHANGED <<router, now, nodeEnv, upstashClient, azureClient, activeProvider,
                   failures, store, supabaseClient, azureDbClient, providerHealth,
                   calls, prev, azureEvents, admin, abandoned>>

LiveCall ==
    \/ CacheCall("c1", "get", "x", NoValue, 0)
    \/ DbCall("c1", "invoke")
LiveCompletion ==
    \/ CacheResolve("c1")
    \/ CacheReject("c1")
    \/ DbResolve("c1")
    \/ DbReject("c1")
    \/ DbTimeout("c1")
LiveTick == \E t \in Instants : Tick(t)
\* the primary of the router heals
LiveHeal == Heal(IF router = "cache" THEN "upstash" ELSE "supabase")

NextLive ==
    \/ LiveCall
    \/ LiveCompletion
    \/ Return("c1")
    \/ LiveTick
    \/ LiveHeal

SpecLive ==
    /\ Init
    /\ [][NextLive]_vars
    /\ WF_vars(LiveCall)
    /\ WF_vars(LiveCompletion)
    /\ WF_vars(Return("c1"))
    /\ SF_vars(LiveTick)

(***************************************************************************)
(* What the claims observe.                                                *)
(***************************************************************************)
RouterProviders == IF router = "cache" THEN CacheProviders ELSE DbProviders
Primary == IF router = "cache" THEN "upstash" ELSE "supabase"
Secondary == "azure"
Configured(p) ==
    IF router = "cache" THEN (IF p = "upstash" THEN upstashClient ELSE azureClient)
    ELSE (IF p = "supabase" THEN supabaseClient ELSE azureDbClient)
FailureCount(p) ==
    IF router = "cache" THEN failures[p] ELSE providerHealth[p].failures
LastFailure(p) ==
    IF router = "cache" THEN failures[lastFailureField(p)]
    ELSE providerHealth[p].lastFailure
Threshold == IF router = "cache" THEN MAX_FAILURES ELSE FAILURE_THRESHOLD
ResetTimeout == IF router = "cache" THEN FAILURE_RESET_TIME ELSE CIRCUIT_RESET_TIME
\* what the availability check of p would return now
Available(p) ==
    IF router = "cache" THEN isProviderAvailable(failures, p, now).ret
    ELSE dbIsProviderAvailable(providerHealth, p, now).ret

\* In this step call c asked whether p is available and was told yes: it
\* issued its attempt on p.
Issued(c, p) ==
    /\ calls'[c].pc = "await"
    /\ calls'[c].provider = p
    /\ ~(calls[c].pc = "await" /\ calls[c].provider = p)
\* In this step call c asked whether p is available and was told no.
Refused(c, p) ==
    /\ Configured(p)
    /\ p \in calls'[c].skipped
    /\ p \notin calls[c].skipped
\* In this step the attempt of call c on p completed with a failure.
Failed(c, p) ==
    /\ calls[c].pc = "await"
    /\ calls[c].provider = p
    /\ Len(calls'[c].attempts) = Len(calls[c].attempts) + 1
    /\ calls'[c].attempts[Len(calls'[c].attempts)].outcome # "ok"
\* In this step the attempt of call c on p completed successfully.
Succeeded(c, p) ==
    /\ calls[c].pc = "await"
    /\ calls[c].provider = p
    /\ Len(calls'[c].attempts) = Len(calls[c].attempts) + 1
    /\ calls'[c].attempts[Len(calls'[c].attempts)].outcome = "ok"

(***************************************************************************)
(* C1.  An availability check of provider p made while failureCount(p) is  *)
(* below 3 returns true; one made while the count is 3 or more and no more *)
(* than the reset time has passed since p's last failure returns false.    *)
(***************************************************************************)
C1_AvailabilityCheck ==
    [][\A c \in Callers : \A p \in RouterProviders :
          /\ FailureCount(p) < 3 => ~Refused(c, p)
          /\ (FailureCount(p) >= 3 /\ now - LastFailure(p) <= 60000) => ~Issued(c, p)
      ]_vars

\* A call has passed over the configured primary whose third failure was
\* recorded and has gone to the secondary.
C1_Witness ==
    \E c \in Callers :
        /\ Configured(Primary)
        /\ FailureCount(Primary) = 3
        /\ Primary \in calls[c].skipped
        /\ calls[c].pc = "await"
        /\ calls[c].provider = Secondary

(***************************************************************************)
(* C2.  A check of a provider whose breaker is open returns true and       *)
(* resets the counter to 0 when more than the reset time has passed since  *)
(* the last failure; otherwise it returns false and leaves the counter.    *)
(***************************************************************************)
C2_TimedReset ==
    [][\A c \in Callers : \A p \in RouterProviders :
          ((Issued(c, p) \/ Refused(c, p)) /\ FailureCount(p) >= Threshold) =>
              IF now - LastFailure(p) > ResetTimeout
              THEN Issued(c, p) /\ FailureCount(p)' = 0
              ELSE Refused(c, p) /\ FailureCount(p)' = FailureCount(p)
      ]_vars

\* A call is attempting a provider whose breaker its own check has reset.
C2_Witness ==
    \E c \in Callers : \E p \in RouterProviders :
        /\ calls[c].pc = "await"
        /\ calls[c].provider = p
        /\ p \in calls[c].reset
        /\ FailureCount(p) = 0
        /\ now - LastFailure(p) > ResetTimeout

(***************************************************************************)
(* C3.  Once 3 failures have opened the breaker of a provider it stays     *)
(* open, so that every call skips the provider, until the reset time has   *)
(* passed since its last failure; and when the attempt made after a timed  *)
(* reset fails, the provider is unavailable again.                         *)
(***************************************************************************)
C3_SkipUntilReset ==
    [][\A p \in RouterProviders :
          /\ (FailureCount(p) >= Threshold /\ now' - LastFailure(p) <= ResetTimeout)
                => FailureCount(p)' >= Threshold
          /\ \A c \in Callers :
                (Failed(c, p) /\ p \in calls[c].reset) => ~Available(p)'
      ]_vars

(***************************************************************************)
(* C4.  When the breaker of the primary is open and the primary has become *)
(* healthy for good, then eventually a call is served by the primary and   *)
(* the primary's failure count is 0 again (provided the sampled clock      *)
(* still reaches an instant after the breaker's reset time).                *)
(***************************************************************************)
LastInstant == StartTime + FAILURE_RESET_TIME + 1

C4_Recovery ==
    (/\ FailureCount(Primary) >= Threshold
     /\ Primary \in stable
     /\ LastFailure(Primary) + ResetTimeout < LastInstant)
    ~> (/\ calls["c1"].pc = "done"
        /\ Served(calls["c1"])
        /\ ServedBy(calls["c1"]) = Primary
        /\ FailureCount(Primary) = 0)

\* A call whose check reset the open breaker of the healed primary has been
\* served by it.
C4_Witness ==
    /\ Primary \in stable
    /\ Primary \in calls["c1"].reset
    /\ calls["c1"].pc = "done"
    /\ Served(calls["c1"])
    /\ ServedBy(calls["c1"]) = Primary
    /\ FailureCount(Primary) = 0

(***************************************************************************)
(* C5.  A call attempts the primary first and the secondary only when the  *)
(* primary is unconfigured, was refused by its breaker, or has failed in   *)
(* this call; a successful attempt is the last one of the call and its     *)
(* reply is what the call returns.                                         *)
(***************************************************************************)
OpaqueOps == {"incr", "expire", "ttl", "eval", "sadd", "srem"} \cup DbOps

C5_OrderState ==
    \A c \in Callers :
        LET r == calls[c]
            n == Len(r.attempts)
        IN  /\ \A i \in 1..n :
                  /\ r.attempts[i].outcome = "ok" => (i = n /\ r.pc = "done")
                  /\ r.attempts[i].provider = Primary => i = 1
                  /\ r.attempts[i].provider = Secondary =>
                        \/ Primary \in r.skipped /\ i = 1
                        \/ /\ i = 2
                           /\ r.attempts[1].provider = Primary
                           /\ r.attempts[1].outcome # "ok"
            /\ (r.pc = "await" /\ r.provider = Primary) => (n = 0 /\ r.skipped = {})
            /\ (r.pc = "await" /\ r.provider = Secondary) =>
                  \/ Primary \in r.skipped /\ n = 0
                  \/ n = 1 /\ r.attempts[1].provider = Primary
            /\ (r.pc = "done" /\ Served(r)) =>
                  /\ r.result.kind = "return"
                  /\ r.op \in OpaqueOps => r.result.value = Reply(ServedBy(r))
            /\ (r.pc = "done" /\ ~Served(r)) => r.result.value.t # "reply"

C5_PriorityOrder ==
    /\ []C5_OrderState
    /\ [][\A c \in Callers :
            Issued(c, Secondary) =>
                \/ ~Configured(Primary)
                \/ ~Available(Primary)
                \/ Failed(c, Primary)
        ]_vars

\* A data-store call was served by the secondary after its attempt on the
\* primary failed.
C5_Witness ==
    \E c \in Callers :
        /\ router = "db"
        /\ calls[c].pc = "done"
        /\ Len(calls[c].attempts) = 2
        /\ calls[c].attempts[1] = [provider |-> "supabase", outcome |-> "error"]
        /\ calls[c].attempts[2] = [provider |-> "azure", outcome |-> "ok"]
        /\ calls[c].result = Returned(Reply("azure"))

(***************************************************************************)
(* C6.  Within one call each provider is attempted at most once: at most   *)
(* two attempts, on different providers, and never a second attempt on a   *)
(* provider the call has already attempted.                                *)
(***************************************************************************)
C6_NoRetry ==
    \A c \in Callers :
        LET r == calls[c]
            n == Len(r.attempts)
        IN  /\ n + (IF r.pc = "await" THEN 1 ELSE 0) <= 2
            /\ \A i, j \in 1..n : i # j => r.attempts[i].provider # r.attempts[j].provider
            /\ r.pc = "await" => \A i \in 1..n : r.attempts[i].provider # r.provider

\* Both attempts of a call have failed.
C6_Witness ==
    \E c \in Callers :
        /\ calls[c].pc = "done"
        /\ Len(calls[c].attempts) = 2
        /\ calls[c].attempts[1].outcome # "ok"
        /\ calls[c].attempts[2].outcome # "ok"

(***************************************************************************)
(* C7.  A failed attempt on p, by a driver error or by a timeout, adds     *)
(* exactly one to failureCount(p), stamps p's last failure with the        *)
(* current time and, when p is the primary and the secondary is configured *)
(* and available, is followed by an attempt on the secondary.              *)
(***************************************************************************)
C7_FailureRecorded ==
    [][\A c \in Callers : \A p \in RouterProviders :
          Failed(c, p) =>
              /\ FailureCount(p)' = FailureCount(p) + 1
              /\ LastFailure(p)' = now
              /\ (p = Primary /\ Configured(Secondary) /\ Available(Secondary))
                    => Issued(c, Secondary)
      ]_vars

\* The attempt on the primary timed out, was counted and stamped, and the
\* call is attempting the secondary.
C7_Witness ==
    \E c \in Callers :
        /\ calls[c].pc = "await"
        /\ calls[c].provider = Secondary
        /\ calls[c].attempts = <<[provider |-> Primary, outcome |-> "timeout"]>>
        /\ FailureCount(Primary) = 1
        /\ LastFailure(Primary) = now

(***************************************************************************)
(* C8.  Immediately after a successful attempt on p, failureCount(p) is 0  *)
(* and p is available.                                                     *)
(***************************************************************************)
C8_SuccessResets ==
    [][\A c \in Callers : \A p \in RouterProviders :
          Succeeded(c, p) => (FailureCount(p)' = 0 /\ Available(p)')
      ]_vars

\* A provider that had failed before has served a call and its count is 0.
C8_Witness ==
    \E c \in Callers : \E p \in RouterProviders :
        /\ calls[c].pc = "done"
        /\ Served(calls[c])
        /\ ServedBy(calls[c]) = p
        /\ LastFailure(p) >= StartTime
        /\ FailureCount(p) = 0

(***************************************************************************)
(* C9.  Both cache providers configured, both counters 0, the primary      *)
(* failing and the secondary serving: set(k, v, ttl) then get(k) both      *)
(* return, get returns v, the primary's counter is 2, the secondary's 0.   *)
(***************************************************************************)
FailedOver(r) ==
    r.attempts = <<[provider |-> "upstash", outcome |-> "error"],
                   [provider |-> "azure", outcome |-> "ok"]>>

C9_FailoverTransparency ==
    LET s == prev["c1"]
        g == calls["c1"]
    IN  (/\ upstashClient /\ azureClient
         /\ s.op = "set" /\ s.ex > 0 /\ FailedOver(s)
         /\ g.pc = "done" /\ g.op = "get" /\ g.key = s.key /\ FailedOver(g))
        => /\ s.result.kind = "return"
           /\ g.result = Returned(s.value)
           /\ failures["upstash"] = 2
           /\ failures["azure"] = 0

(***************************************************************************)
(* C10.  set(k, v) followed by get(k) returns a value equal to v,          *)
(* whichever provider served the set and whichever served the get.         *)
(***************************************************************************)
C10_RoundTrip ==
    LET s == prev["c1"]
        g == calls["c1"]
    IN  (/\ s.op = "set" /\ Served(s)
         /\ g.pc = "done" /\ g.op = "get" /\ g.key = s.key /\ Served(g))
        => g.result = Returned(s.value)

(***************************************************************************)
(* C11.  A read of the cache router that no provider served (each provider *)
(* unconfigured, refused by its breaker, or failed) returns: get null,     *)
(* exists 0, ttl -1, keys the empty list; it never throws, in production   *)
(* and in development alike.                                               *)
(***************************************************************************)
Unserved(r) == r.pc = "done" /\ ~Served(r)

C11_ReadsDegrade ==
    \A c \in Callers :
        LET r == calls[c] IN
        (router = "cache" /\ Unserved(r)) =>
            /\ r.op = "get" => r.result = [kind |-> "return", value |-> Null]
            /\ r.op = "exists" => r.result = [kind |-> "return", value |-> Num(0)]
            /\ r.op = "ttl" => r.result = [kind |-> "return", value |-> Num(-1)]
            /\ r.op = "keys" => r.result = [kind |-> "return", value |-> EmptyList]

\* In production a get whose two attempts failed has returned null.
C11_Witness ==
    /\ nodeEnv = "production"
    /\ calls["c1"].pc = "done"
    /\ calls["c1"].op = "get"
    /\ Len(calls["c1"].attempts) = 2
    /\ ~Served(calls["c1"])
    /\ calls["c1"].result = Returned(Null)

(***************************************************************************)
(* C12.  In production every write of the cache router that no provider    *)
(* served (set, del, incr, expire, setex, eval, sadd, srem) throws; it     *)
(* never returns a value.                                                  *)
(***************************************************************************)
C12_WritesThrowInProduction ==
    \A c \in Callers :
        LET r == calls[c] IN
        (router = "cache" /\ nodeEnv = "production" /\ Unserved(r)
            /\ r.op \in {"set", "del", "incr", "expire", "setex", "eval", "sadd", "srem"})
        => r.result.kind = "throw"

(***************************************************************************)
(* C13.  In development a write of the cache router that no provider       *)
(* served returns its no-op value without throwing (set and setex 'OK',    *)
(* eval null, the others 0), and every attempt that failed in the call is  *)
(* recorded on the breaker of the provider attempted.                      *)
(***************************************************************************)
C13_DevelopmentOutage ==
    /\ [](\A c \in Callers :
            LET r == calls[c] IN
            (router = "cache" /\ nodeEnv = "development" /\ Unserved(r)) =>
                /\ r.op \in {"set", "setex"} => r.result = [kind |-> "return", value |-> Str("OK")]
                /\ r.op = "eval" => r.result = [kind |-> "return", value |-> Null]
                /\ r.op \in {"del", "incr", "expire", "sadd", "srem"}
                      => r.result = [kind |-> "return", value |-> Num(0)])
    /\ [][\A c \in Callers : \A p \in CacheProviders :
            (router = "cache" /\ nodeEnv = "development" /\ Failed(c, p)
                /\ calls[c].op \in CacheWrites)
            => /\ failures'[p] = failures[p] + 1
               /\ failures'[lastFailureField(p)] = now
        ]_vars

\* In development a set whose attempts on both providers failed has returned
\* 'OK', and both breakers have counted the failure.
C13_Witness ==
    /\ nodeEnv = "development"
    /\ calls["c1"].pc = "done"
    /\ calls["c1"].op = "set"
    /\ Len(calls["c1"].attempts) = 2
    /\ ~Served(calls["c1"])
    /\ calls["c1"].result = Returned(Str("OK"))
    /\ failures["upstash"] >= 1
    /\ failures["azure"] >= 1

(***************************************************************************)
(* C14.  The value handed to a provider by set and setex, primary or       *)
(* secondary, is the text form of the value: the value itself when it is a *)
(* string, its JSON encoding otherwise.  A get returns the JSON decoding   *)
(* of the text the serving provider holds, and the text itself when it     *)
(* does not decode.                                                        *)
(***************************************************************************)
C14_Encoding ==
    \A c \in Callers :
        LET r == calls[c] IN
        /\ (router = "cache" /\ r.pc = "await" /\ r.op \in {"set", "setex"}) =>
              r.sent = Str(IF r.value.t = "string" THEN r.value.s
                           ELSE JSONstringify(r.value))
        /\ (router = "cache" /\ r.pc = "done" /\ r.op = "get" /\ Served(r)
               /\ store[ServedBy(r)][r.key] # Nil) =>
              LET text == store[ServedBy(r)][r.key] IN
              r.result.value = IF JSONparse(text).ok THEN JSONparse(text).value
                               ELSE Str(text)

(***************************************************************************)
(* C15.  $disconnect starts the teardown of every configured data-store    *)
(* provider, whatever the state of the breakers, and the teardown of each  *)
(* provider has been started also when the teardown of the other fails; no *)
(* step of $disconnect changes a breaker.                                  *)
(***************************************************************************)
C15_DisconnectAll ==
    /\ [](teardown.pc # "idle" =>
            teardown.issued = {p \in DbProviders : Configured(p)})
    /\ [][teardown' # teardown => providerHealth' = providerHealth]_vars

\* Both breakers are open, the teardown of the primary has failed and the
\* teardown of the secondary was started all the same.
C15_Witness ==
    /\ providerHealth["supabase"].isCircuitOpen
    /\ providerHealth["azure"].isCircuitOpen
    /\ teardown.pc = "done"
    /\ teardown.result = Thrown("error from supabase")
    /\ teardown.issued = {"supabase", "azure"}

(***************************************************************************)
(* C16.  A provider that is not configured is never attempted and its      *)
(* failure count is 0 in every reachable state; with both cache providers  *)
(* unconfigured every call completes without an attempt, with the          *)
(* no-provider outcome of its kind: a read its empty value, a write a      *)
(* thrown failure in production and a returned no-op value in development. *)
(***************************************************************************)
C16_Unconfigured ==
    /\ \A p \in RouterProviders :
          ~Configured(p) =>
              /\ FailureCount(p) = 0
              /\ \A c \in Callers :
                    /\ calls[c].provider # p
                    /\ \A i \in 1..Len(calls[c].attempts) :
                          calls[c].attempts[i].provider # p
    /\ (router = "cache" /\ ~upstashClient /\ ~azureClient) =>
          \A c \in Callers :
              LET r == calls[c] IN
              /\ r.pc # "await"
              /\ r.pc = "done" =>
                    /\ r.attempts = <<>>
                    /\ r.op = "get" => r.result = Returned(Null)
                    /\ r.op = "exists" => r.result = Returned(Num(0))
                    /\ r.op = "ttl" => r.result = Returned(Num(-1))
                    /\ r.op = "keys" => r.result = Returned(EmptyList)
                    /\ r.op \in CacheWrites =>
                          r.result.kind = IF nodeEnv = "production" THEN "throw"
                                          ELSE "return"

(***************************************************************************)
(* C17.  getHealthStatus reports a provider as configured exactly when the *)
(* router holds a client for it; called with the primary configured and    *)
(* without recorded failure and the secondary unconfigured, it reports the *)
(* primary as the active provider, the secondary as not configured, the    *)
(* primary as available and 0 failures of the primary.                     *)
(***************************************************************************)
C17_HealthSnapshot ==
    [][(~snapshot.taken /\ snapshot'.taken) =>
          /\ snapshot'.upstash.configured = upstashClient
          /\ snapshot'.azure.configured = azureClient
          /\ (upstashClient /\ ~azureClient /\ failures["upstash"] = 0) =>
                /\ snapshot'.active = "upstash"
                /\ snapshot'.azure.configured = FALSE
                /\ snapshot'.upstash.available = TRUE
                /\ snapshot'.upstash.failures = 0
      ]_vars

\* The snapshot of a router that holds only the primary's client, taken after
\* the primary has served a probe.
C17_Witness ==
    /\ upstashClient
    /\ ~azureClient
    /\ failures["upstash"] = 0
    /\ probe.status = "healthy"
    /\ snapshot.taken
    /\ snapshot.active = "upstash"
    /\ ~snapshot.azure.configured
    /\ snapshot.upstash = [configured |-> TRUE, available |-> TRUE, failures |-> 0]

(***************************************************************************)
(* C18.  The probe reports 'healthy' exactly when its set, get and del all *)
(* completed without throwing and the get returned the value written,      *)
(* 'degraded' exactly when they all completed and the get returned another *)
(* value, 'unhealthy' exactly when one of them threw; a probe none of      *)
(* whose calls was served by a provider does not report 'healthy'.         *)
(***************************************************************************)
C18_ProbeStatus ==
    probe.pc = "done" =>
        LET n == Len(probe.steps)
            threw == \E i \in 1..n : probe.steps[i].result.kind = "throw"
            completed ==
                /\ n = 3
                /\ ~threw
                /\ probe.steps[1].op = "set"
                /\ probe.steps[2].op = "get"
                /\ probe.steps[3].op = "del"
            readBack == completed /\ probe.steps[2].result.value = Str("ok")
        IN  /\ probe.status \in {"healthy", "degraded", "unhealthy"}
            /\ probe.status = "healthy" <=> readBack
            /\ probe.status = "degraded" <=> (completed /\ ~readBack)
            /\ probe.status = "unhealthy" <=> threw
            /\ (\A i \in 1..n : ~probe.steps[i].served) => probe.status # "healthy"

\* A probe whose set was served by the primary and whose get by the
\* secondary has completed and reports 'degraded'.
C18_Witness ==
    /\ probe.pc = "done"
    /\ probe.status = "degraded"
    /\ Len(probe.steps) = 3
    /\ probe.steps[1].served
    /\ probe.steps[2].served
    /\ probe.steps[2].result = Returned(Null)

(***************************************************************************)
(* C19.  An attempt of the data-store router is pending for no longer than *)
(* OPERATION_TIMEOUT (5000 ms): when the deadline comes first the attempt  *)
(* fails with 'Operation timeout', the provider's failures are incremented *)
(* and stamped, and its breaker opened at 3, as for a driver error, and    *)
(* the call goes to the secondary when that is configured and available,   *)
(* under a deadline of its own; otherwise the call throws the timeout.     *)
(***************************************************************************)
TimedOut(c, p) ==
    /\ router = "db"
    /\ Failed(c, p)
    /\ calls'[c].attempts[Len(calls'[c].attempts)].outcome = "timeout"

C19_TimeoutBound ==
    /\ [](\A c \in Callers :
            (router = "db" /\ calls[c].pc = "await") =>
                /\ now <= calls[c].deadline
                /\ calls[c].deadline <= now + 5000)
    /\ [][\A c \in Callers : \A p \in DbProviders :
            TimedOut(c, p) =>
                /\ now = calls[c].deadline
                /\ providerHealth'[p] =
                      [failures |-> providerHealth[p].failures + 1,
                       lastFailure |-> now,
                       isCircuitOpen |-> (providerHealth[p].isCircuitOpen
                                          \/ providerHealth[p].failures + 1 >= 3)]
                /\ IF p = "supabase" /\ azureDbClient /\ Available("azure")
                   THEN /\ Issued(c, "azure")
                        /\ calls'[c].deadline = now + 5000
                   ELSE /\ calls'[c].pc = "done"
                        /\ calls'[c].result =
                              [kind |-> "throw", value |-> Str("Operation timeout")]
        ]_vars

\* The attempt on the primary timed out 5000 ms after the call was made, and
\* the call was then served by the secondary.
C19_Witness ==
    /\ router = "db"
    /\ now = StartTime + 5000
    /\ calls["c1"].pc = "done"
    /\ calls["c1"].attempts = <<[provider |-> "supabase", outcome |-> "timeout"],
                                [provider |-> "azure", outcome |-> "ok"]>>
    /\ providerHealth["supabase"].lastFailure = StartTime + 5000
    /\ providerHealth["supabase"].failures >= 1

(***************************************************************************)
(* C20.  No lost updates under concurrency.  The attempts of both callers  *)
(* since construction are on record, and so are the events of the ioredis  *)
(* client.                                                                 *)
(***************************************************************************)
Records == {calls[c] : c \in Callers} \cup {prev[c] : c \in Callers}

FailedAttempts(p) ==
    Cardinality({x \in Callers \X {"calls", "prev"} \X {1, 2} :
        LET r == IF x[2] = "calls" THEN calls[x[1]] ELSE prev[x[1]]
        IN  /\ x[3] <= Len(r.attempts)
            /\ r.attempts[x[3]].provider = p
            /\ r.attempts[x[3]].outcome # "ok"})

NoSuccessNoReset(p) ==
    \A r \in Records :
        /\ p \notin r.reset
        /\ \A i \in 1..Len(r.attempts) :
              ~(r.attempts[i].provider = p /\ r.attempts[i].outcome = "ok")

\* C20 as stated: with several calls in flight at once, as long as no attempt
\* on p has succeeded and no check has reset p, the failure count of p is
\* exactly the number of attempts on p that have failed, in whatever order
\* the attempts of the callers completed.
C20_NoLostUpdate ==
    \A p \in RouterProviders :
        NoSuccessNoReset(p) => FailureCount(p) = FailedAttempts(p)

\* The 'error' events the ioredis client has emitted count as failures of
\* Azure in the cache router, and its 'connect' event resets the count.
ErrorEvents(p) ==
    IF router = "cache" /\ p = "azure" THEN azureEvents.errors ELSE 0
NoConnectEvent(p) ==
    ~(router = "cache" /\ p = "azure" /\ azureEvents.connected)

\* C20, with the events of the ioredis client counted: as long as no attempt
\* on p has succeeded, no check has reset p and the client of p has emitted
\* no 'connect', the failure count of p is the number of attempts on p that
\* have failed plus the number of 'error' events the client of p has
\* emitted, in whatever order the attempts completed and the events fired.
C20_NoLostUpdateWithEvents ==
    \A p \in RouterProviders :
        (NoSuccessNoReset(p) /\ NoConnectEvent(p)) =>
            FailureCount(p) = FailedAttempts(p) + ErrorEvents(p)

\* Both callers have a failed attempt on Azure on record, made while the
\* other's call was in flight or kept, and the client has emitted 'error'
\* in between: three failed attempts and one event give a count of four.
C20_Witness ==
    /\ router = "cache"
    /\ NoSuccessNoReset("azure")
    /\ NoConnectEvent("azure")
    /\ ErrorEvents("azure") = 1
    /\ FailedAttempts("azure") = 3
    /\ FailureCount("azure") = 4
    /\ \A c \in Callers :
          \E i \in 1..Len(calls[c].attempts) :
             /\ calls[c].attempts[i].provider = "azure"
             /\ calls[c].attempts[i].outcome # "ok"
(***************************************************************************)
(* C21.  No reconciliation.  The text a cache provider holds changes only  *)
(* in a step in which an attempt made on that provider succeeded, and then *)
(* no other provider's text changes; a request reaches a provider only as  *)
(* the first attempt of a call just made or as the failover of the call    *)
(* whose attempt on the primary has just failed: nothing re-issues an      *)
(* earlier operation.                                                      *)
(***************************************************************************)
C21_NoReconciliation ==
    [][/\ \A p \in CacheProviders :
             store'[p] # store[p] =>
                /\ \E c \in Callers : Succeeded(c, p)
                /\ \A q \in CacheProviders \ {p} : store'[q] = store[q]
       /\ \A c \in Callers : \A p \in RouterProviders :
             Issued(c, p) =>
                \/ calls[c].pc = "idle"
                \/ /\ Failed(c, Primary)
                   /\ p = Secondary
                   /\ calls'[c].op = calls[c].op
                   /\ calls'[c].key = calls[c].key
      ]_vars

\* A write was served by the secondary; the primary has since served a read
\* of the same key and holds nothing under it.
C21_Witness ==
    /\ router = "cache"
    /\ store["azure"]["x"] # Nil
    /\ store["upstash"]["x"] = Nil
    /\ calls["c1"].pc = "done"
    /\ calls["c1"].op = "get"
    /\ Served(calls["c1"])
    /\ ServedBy(calls["c1"]) = "upstash"
    /\ calls["c1"].result = Returned(Null)

(***************************************************************************)
(* C22.  In the data-store router the stored flag isCircuitOpen of a       *)
(* provider is true exactly when its failures are at least                 *)
(* FAILURE_THRESHOLD, in every reachable state, whatever the interleaving  *)
(* of recordFailure, recordSuccess and isProviderAvailable.                *)
(***************************************************************************)
C22_CircuitFlag ==
    \A p \in DbProviders :
        providerHealth[p].isCircuitOpen <=> providerHealth[p].failures >= FAILURE_THRESHOLD

\* Supabase's circuit is open while Azure, which has failed, is closed again.
C22_Witness ==
    /\ router = "db"
    /\ providerHealth["supabase"].isCircuitOpen
    /\ providerHealth["supabase"].failures >= FAILURE_THRESHOLD
    /\ ~providerHealth["azure"].isCircuitOpen
    /\ providerHealth["azure"].failures = 0
    /\ providerHealth["azure"].lastFailure > 0

(***************************************************************************)
(* C23.  The cache breaker counts failures inside a window of 60 seconds:  *)
(* a provider is refused only while its last failure is no more than 60    *)
(* seconds old, and a failure recorded more than 60 seconds after the      *)
(* provider's previous failure does not bring the count to the threshold.  *)
(***************************************************************************)
C23_FailureWindow ==
    [][router = "cache" =>
          \A p \in CacheProviders :
             /\ \A c \in Callers :
                   Refused(c, p) => now - LastFailure(p) <= FAILURE_RESET_TIME
             /\ (/\ FailureCount(p) >= 1
                 /\ FailureCount(p)' = FailureCount(p) + 1
                 /\ now - LastFailure(p) > FAILURE_RESET_TIME)
                    => FailureCount(p)' < MAX_FAILURES
      ]_vars

(***************************************************************************)
(* C24.  A call of the data-store router returns a value exactly when one  *)
(* of its attempts succeeded.  A call that finds no provider configured    *)
(* and eligible throws 'All database providers unavailable', and only such *)
(* a call does; it attempts nothing and leaves providerHealth as it was.   *)
(* A call all of whose attempts failed throws.                             *)
(***************************************************************************)
C24_DbOutcome ==
    [][router = "db" =>
          \A c \in Callers :
             (calls'[c].pc = "done" /\ calls[c].pc # "done") =>
                LET r == calls'[c]
                    ok == {i \in 1..Len(r.attempts) : r.attempts[i].outcome = "ok"}
                IN  /\ r.result.kind \in {"return", "throw"}
                    /\ r.result.kind = "return" <=> Cardinality(ok) = 1
                    /\ r.attempts = <<>> <=>
                          r.result = Thrown("All database providers unavailable")
                    /\ r.attempts = <<>> =>
                          /\ calls[c].pc = "idle"
                          /\ providerHealth' = providerHealth
                          /\ \A p \in DbProviders :
                                ~Configured(p) \/ providerHealth[p].isCircuitOpen
                    /\ (r.attempts # <<>> /\ ok = {}) =>
                          r.result \in {AttemptError(r.attempts[i].outcome,
                                                     r.attempts[i].provider) :
                                           i \in 1..Len(r.attempts)}
      ]_vars

\* Both circuits are open and the call made then has thrown without an
\* attempt.
C24_Witness ==
    /\ router = "db"
    /\ calls["c1"].pc = "done"
    /\ calls["c1"].attempts = <<>>
    /\ calls["c1"].skipped = {"supabase", "azure"}
    /\ providerHealth["supabase"].isCircuitOpen
    /\ providerHealth["azure"].isCircuitOpen
    /\ calls["c1"].result = Thrown("All database providers unavailable")

(***************************************************************************)
(* C25.  With operations in flight at once, a provider whose failureCount  *)
(* has reached the threshold stays ineligible until the cooldown has       *)
(* passed since its last failure: no step taken before then (the           *)
(* completion of an operation started before the breaker opened, a         *)
(* connection event of the secondary cache client) makes it eligible.      *)
(***************************************************************************)
C25_StaysIneligible ==
    [][\A p \in RouterProviders :
          (~Available(p) /\ now' <= LastFailure(p) + ResetTimeout) => ~Available(p)'
      ]_vars

(***************************************************************************)
(* C26.  Late results are discarded.  When a call of a provider that       *)
(* withTimeout had given up on settles, the outcome already delivered to   *)
(* the caller, every failure counter and every circuit stay as they were.  *)
(***************************************************************************)
C26_LateDiscarded ==
    [][\A p \in DbProviders :
          (p \in abandoned /\ p \notin abandoned') =>
             /\ providerHealth' = providerHealth
             /\ calls' = calls
      ]_vars

\* The attempt on Supabase timed out, the call threw the timeout, and the
\* query given up on has settled since: the count is still 1.
C26_Witness ==
    /\ router = "db"
    /\ calls["c1"].pc = "done"
    /\ calls["c1"].attempts = <<[provider |-> "supabase", outcome |-> "timeout"]>>
    /\ calls["c1"].result = TimeoutError
    /\ abandoned = {}
    /\ providerHealth["supabase"].failures = 1

(***************************************************************************)
(* C27.  The cache probe runs its write, read and delete against the       *)
(* selected provider: the provider named in the result of healthCheck, and *)
(* as active in its snapshot, is the one that served every step of the     *)
(* probe, whatever the state of the breakers.                              *)
(***************************************************************************)
C27_ProbeProvider ==
    probe.pc = "done" =>
        /\ probe.details.active = probe.provider
        /\ \A i \in 1..Len(probe.steps) : probe.steps[i].by = probe.provider

(***************************************************************************)
(* C28.  Frame of the cache breaker.  failureCount(p) changes only by +1   *)
(* in a step in which an attempt of an operation on p failed, to 0 in a    *)
(* step in which an attempt on p succeeded, or to 0 by an availability     *)
(* check made after the reset time; lastFailure(p) changes only with such  *)
(* an increment; an attempt that succeeds on the primary leaves the count  *)
(* and the last failure of the secondary as they were.                     *)
(***************************************************************************)
\* an availability check of p resets the count: the breaker was open and the
\* reset time has passed
TimedReset(p) ==
    /\ FailureCount(p) >= MAX_FAILURES
    /\ now - LastFailure(p) > FAILURE_RESET_TIME
    /\ FailureCount(p)' = 0
AttemptFailure(p) ==
    /\ FailureCount(p)' = FailureCount(p) + 1
    /\ \E c \in Callers : Failed(c, p)
AttemptSuccess(p) ==
    /\ FailureCount(p)' = 0
    /\ \E c \in Callers : Succeeded(c, p)
\* the handlers of the ioredis client run between the steps of the calls
ErrorEvent(p) ==
    /\ p = "azure" /\ azureClient /\ calls' = calls
    /\ FailureCount(p)' = FailureCount(p) + 1
ConnectEvent(p) ==
    /\ p = "azure" /\ azureClient /\ calls' = calls
    /\ FailureCount(p)' = 0
PrimarySuccessFrame ==
    \A c \in Callers :
       Succeeded(c, Primary) =>
          /\ FailureCount(Secondary)' = FailureCount(Secondary)
          /\ LastFailure(Secondary)' = LastFailure(Secondary)

C28_BreakerFrame ==
    [][router = "cache" =>
          /\ \A p \in CacheProviders :
                /\ FailureCount(p)' # FailureCount(p) =>
                      AttemptFailure(p) \/ AttemptSuccess(p) \/ TimedReset(p)
                /\ LastFailure(p)' # LastFailure(p) => AttemptFailure(p)
          /\ PrimarySuccessFrame
      ]_vars

\* C28 as amended: the 'error' and 'connect' events of the Azure client also
\* change the count of Azure, by +1 and to 0.
C28_BreakerFrameWithEvents ==
    [][router = "cache" =>
          /\ \A p \in CacheProviders :
                /\ FailureCount(p)' # FailureCount(p) =>
                      \/ AttemptFailure(p) \/ AttemptSuccess(p) \/ TimedReset(p)
                      \/ ErrorEvent(p) \/ ConnectEvent(p)
                /\ LastFailure(p)' # LastFailure(p) =>
                      /\ AttemptFailure(p) \/ ErrorEvent(p)
                      /\ LastFailure(p)' = now
          /\ PrimarySuccessFrame
      ]_vars

\* Upstash has never failed, so no call has reached Azure, and Azure's count
\* is 1: an 'error' event raised it, and the call Upstash served left it.
C28_Witness ==
    /\ router = "cache"
    /\ upstashClient /\ azureClient
    /\ failures["lastUpstashFailure"] = 0
    /\ failures["azure"] = 1
    /\ calls["c1"].pc = "done"
    /\ Served(calls["c1"])
    /\ ServedBy(calls["c1"]) = "upstash"

(***************************************************************************)
(* C29.  Every snapshot taken by getHealthStatus of the cache router, by a *)
(* caller or by healthCheck, is consistent: a provider is reported         *)
(* available exactly when the failures reported for it are below 3, and    *)
(* the failures reported are those the tracker holds afterwards.  Taking   *)
(* the snapshot changes the tracker only by resetting the count of a       *)
(* provider whose reset time has passed.                                   *)
(***************************************************************************)
SnapshotConsistent(s) ==
    \A p \in CacheProviders :
       /\ s[p].available <=> s[p].failures < MAX_FAILURES
       /\ s[p].failures = failures'[p]
SnapshotFrame ==
    \A p \in CacheProviders :
       /\ failures'[p] # failures[p] => TimedReset(p)
       /\ LastFailure(p)' = LastFailure(p)

C29_SnapshotConsistency ==
    [][/\ (snapshot'.taken /\ ~snapshot.taken) =>
             SnapshotConsistent(snapshot') /\ SnapshotFrame
       /\ (probe'.pc = "done" /\ probe.pc # "done") =>
             SnapshotConsistent(probe'.details) /\ SnapshotFrame
      ]_vars

\* A snapshot that reports Upstash unavailable with 3 failures or more and
\* Azure available.
C29_Witness ==
    /\ snapshot.taken
    /\ ~snapshot.upstash.available
    /\ snapshot.upstash.failures >= MAX_FAILURES
    /\ snapshot.azure.available
    /\ snapshot.azure.failures < MAX_FAILURES

(***************************************************************************)
(* C30.  healthCheck of the data-store router queries every configured     *)
(* provider, whatever the state of its circuit, and no step of it changes  *)
(* providerHealth: a probe that fails or times out adds no failure, one    *)
(* that succeeds clears no count and closes no circuit.                    *)
(***************************************************************************)
C30_DbProbeFrame ==
    [][router = "db" =>
          /\ dbProbe' # dbProbe => providerHealth' = providerHealth
          /\ (dbProbe'.pc = "done" /\ dbProbe.pc # "done") =>
                /\ dbProbe'.issued = {p \in DbProviders : Configured(p)}
                /\ \A p \in DbProviders :
                      dbProbe'.results[p].available => p \in dbProbe'.issued
      ]_vars

\* Both providers were probed while Supabase's circuit was open: Supabase
\* answered and its circuit is still open; Azure did not and has no failure.
C30_Witness ==
    /\ router = "db"
    /\ dbProbe.pc = "done"
    /\ dbProbe.issued = {"supabase", "azure"}
    /\ dbProbe.results["supabase"].available
    /\ providerHealth["supabase"].isCircuitOpen
    /\ ~dbProbe.results["azure"].available
    /\ providerHealth["azure"].failures = 0
    /\ providerHealth["azure"].lastFailure = 0

(***************************************************************************)
(* C31.  streamChatWithAI always terminates with an AIResponse: a call     *)
(* that has been made returns, even when the provider accepts the request  *)
(* and then sends nothing more and never closes the stream.                *)
(***************************************************************************)
C31_StreamTerminates == (stream.pc # "idle") ~> (stream.pc = "done")

(***************************************************************************)
(* C32.  Within one call of streamChatWithAI the updates are buffered: any *)
(* two consecutive invocations of onChunk are more than UPDATE_INTERVAL    *)
(* apart, and no two consecutive invocations carry the same text.          *)
(***************************************************************************)
C32_BufferedUpdates ==
    \A i \in 1..(Len(stream.updates) - 1) :
       /\ stream.updates[i + 1].at - stream.updates[i].at > UPDATE_INTERVAL
       /\ stream.updates[i + 1].text # stream.updates[i].text

(***************************************************************************)
(* C33.  The text passed to successive invocations of onChunk only grows:  *)
(* each is an extension of the one before.  When the call returns success  *)
(* the last invocation carried exactly the content returned; while no      *)
(* content has been received onChunk is not invoked, and a call that       *)
(* received none returns a failure.                                        *)
(***************************************************************************)
IsPrefix(a, b) == Len(a) <= Len(b) /\ SubSeq(b, 1, Len(a)) = a

C33_GrowingUpdates ==
    /\ \A i \in 1..(Len(stream.updates) - 1) :
          IsPrefix(stream.updates[i].text, stream.updates[i + 1].text)
    /\ (stream.pc = "done" /\ stream.result.success) =>
          /\ stream.updates # <<>>
          /\ stream.updates[Len(stream.updates)].text = stream.result.content
          /\ stream.result.content = stream.accumulatedContent
    /\ stream.accumulatedContent = <<>> =>
          /\ stream.updates = <<>>
          /\ stream.pc = "done" => ~stream.result.success

\* The answer was returned after three updates, each longer than the one
\* before.
C33_Witness ==
    /\ stream.pc = "done"
    /\ stream.result.success
    /\ Len(stream.updates) = 3
    /\ Len(stream.updates[1].text) < Len(stream.updates[2].text)
    /\ Len(stream.updates[2].text) < Len(stream.updates[3].text)

(***************************************************************************)
(* C34.  checkSecurityRateLimit allows at most maxRequests requests per    *)
(* window: for every identifier, the calls answered allowed = true between *)
(* the opening of its current window and the window's resetAt are no more  *)
(* than maxRequests, for every non-negative maxRequests and every sequence *)
(* of call times.                                                          *)
(***************************************************************************)
\* the calls of the identifier that were allowed within its current window
AllowedInWindow(identifier) ==
    LET entry == limiter.rateLimitStore[identifier]
    IN  {i \in 1..Len(limiter.log) :
            /\ limiter.log[i].identifier = identifier
            /\ limiter.log[i].allowed
            /\ limiter.log[i].at >= entry.resetAt - limiter.windowMs
            /\ limiter.log[i].at <= entry.resetAt}

C34_AtMostMaxRequests ==
    \A identifier \in Identifiers :
       limiter.rateLimitStore[identifier].present =>
          Cardinality(AllowedInWindow(identifier)) <= limiter.maxRequests

(***************************************************************************)
(* C35.  A request denied with retryAfter = r seconds has r >= 1, and the  *)
(* next call of the same identifier, made exactly r seconds later, is      *)
(* allowed.                                                                *)
(***************************************************************************)
\* the call of the identifier that precedes call j, 0 if none
PreviousCall(j) ==
    LET earlier == {i \in 1..(j - 1) :
                       limiter.log[i].identifier = limiter.log[j].identifier}
    IN  IF earlier = {} THEN 0 ELSE CHOOSE i \in earlier : \A k \in earlier : k <= i

C35_RetryAfter ==
    \A j \in 1..Len(limiter.log) :
       /\ ~limiter.log[j].allowed => limiter.log[j].retryAfter >= 1
       /\ LET i == PreviousCall(j)
          IN  (/\ i # 0
               /\ ~limiter.log[i].allowed
               /\ limiter.log[j].at = limiter.log[i].at + 1000 * limiter.log[i].retryAfter)
                 => limiter.log[j].allowed

(***************************************************************************)
(* C36.  After any sequence of trackReferralSignup calls, concurrent ones  *)
(* for the same new user included, no referral record has referrerId =     *)
(* referredId and no two records have the same referred user.              *)
(***************************************************************************)
C36_OneReferralPerUser ==
    LET table == referralDb.referrals
    IN  /\ \A i \in 1..Len(table) : table[i].referrerId # table[i].referredId
        /\ \A i, j \in 1..Len(table) :
              table[i].referredId = table[j].referredId => i = j

(***************************************************************************)
(* C37.  First-referral rewards are distributed exactly once per           *)
(* referral, however often and however concurrently completeReferral is    *)
(* called: a user holds no more than 3 Pro days and 50 credits for each    *)
(* referral that has left PENDING in which the user is referrer or         *)
(* referred, and a total of referrals no greater than the number of those  *)
(* in which the user is the referrer; once the calls have returned and the *)
(* referrals that left PENDING are REWARDED, the user holds exactly that.  *)
(***************************************************************************)
\* the referrals that have left PENDING in which the user has the role
Completed(user, role) ==
    {i \in 1..Len(referralDb.referrals) :
        /\ referralDb.referrals[i].status # "PENDING"
        /\ referralDb.referrals[i][role] = user}
RewardsDue(user) ==
    Cardinality(Completed(user, "referrerId")) + Cardinality(Completed(user, "referredId"))
Quiescent == \A w \in Workers : jobs[w].pc = "idle"

C37_RewardedOnce ==
    \A u \in Users :
       LET r == referralDb.userRewards[u]
       IN  /\ r.proTrialDays <= RewardProTrialDays * RewardsDue(u)
           /\ r.credits <= RewardCredits * RewardsDue(u)
           /\ r.totalReferrals <= Cardinality(Completed(u, "referrerId"))
           /\ (/\ Quiescent
               /\ \A i \in 1..Len(referralDb.referrals) :
                     referralDb.referrals[i].status \in {"PENDING", "REWARDED"})
                 => /\ r.proTrialDays = RewardProTrialDays * RewardsDue(u)
                    /\ r.credits = RewardCredits * RewardsDue(u)
                    /\ r.totalReferrals = Cardinality(Completed(u, "referrerId"))

(***************************************************************************)
(* C38.  completeReferral has no partial outcome: when no call is in       *)
(* progress every referral is PENDING, or REWARDED with the rewards of     *)
(* both parties granted, and while all referrals are PENDING nobody holds  *)
(* a reward; a referral that has left PENDING eventually reaches REWARDED. *)
(***************************************************************************)
NoPartialOutcome ==
    LET table == referralDb.referrals
    IN  Quiescent =>
           /\ \A i \in 1..Len(table) :
                 /\ table[i].status \in {"PENDING", "REWARDED"}
                 /\ table[i].status = "REWARDED" =>
                       /\ referralDb.userRewards[table[i].referrerId].present
                       /\ referralDb.userRewards[table[i].referredId].present
           /\ (\A i \in 1..Len(table) : table[i].status = "PENDING") =>
                 \A u \in Users : ~referralDb.userRewards[u].present

C38_NoPartialOutcome ==
    /\ []NoPartialOutcome
    /\ \A i \in 1..(MaxJobs * Cardinality(Workers)) :
          (Len(referralDb.referrals) >= i /\ referralDb.referrals[i].status = "COMPLETED")
             ~> (Len(referralDb.referrals) >= i /\ referralDb.referrals[i].status = "REWARDED")

====
